---------------------------- MODULE Spec2Model ----------------------------
(***************************************************************************)
(* Persistence and validation core of the chain node:                      *)
(*   - CoinDatabase (cache + persistent CoinRecords)                       *)
(*   - ChainWriter  (append-only segment files for blocks / undo blocks)   *)
(* Each component has its own specification over the module's variables.   *)
(***************************************************************************)
EXTENDS Integers, Sequences, FiniteSets, TLC

VARIABLES
    \* ---- CoinDatabase ----
    MainCache,          \* map[CoinLocator]*Coin : locator -> [Amount, LockingScript, IsSpent]
    db,                 \* leveldb : tx hash -> CoinRecord (a key is present or not)
    MainCacheSize,      \* uint32 counter
    MainCacheCapacity,  \* uint32, fixed at construction
    panicked,           \* the process died on a nil-pointer dereference
    chain,              \* caller's view: the blocks applied and not undone, oldest first
    lastOp,             \* the public operation that returned last (with what it was given)
    nOps,               \* number of operations performed so far
    validated,          \* what ValidateBlock returned, when it was the last call
    lastRead,           \* what GetCoin was asked and returned, when it was the last call
    \* ---- ChainWriter ----
    CurrentBlockFileNumber,
    CurrentBlockOffset,
    CurrentUndoFileNumber,
    CurrentUndoOffset,
    MaxBlockFileSize,
    MaxUndoFileSize,
    files,              \* the data directory: file name -> content written so far
    returned,           \* every FileInfo handed back so far, with the bytes given to that write
    nWrites,
    lastCall,           \* the ChainWriter call that returned last: its writes and its result
    restarts,           \* how many times chainwriter.New was called over the written directory
    \* ---- BlockInfoDatabase ----
    blockInfoDB,        \* leveldb : block hash -> serialized BlockRecord
    putLog,             \* every StoreBlockRecord that returned nil: hash and record, oldest first
    lastInfoCall,       \* the BlockInfoDatabase call that returned last, with what it returned
    nPuts,
    \* ---- Wallet ----
    Balance,                    \* uint32
    CoinCollection,             \* the owner's coins (CoinInfo values)
    UnseenSpentCoins,           \* tx hash -> the CoinInfos used in that transaction
    UnconfirmedSpentCoins,      \* CoinInfo -> confirmations
    UnconfirmedReceivedCoins,   \* CoinInfo -> confirmations
    SafeBlockAmount,            \* Config.SafeBlockAmount
    TransactionRequests,        \* the transactions sent on the channel
    handled,                    \* the transactions of the blocks given to HandleBlock so far
    lastWalletCall,             \* the Wallet call that returned last, with its Balance decreases
    nWalletOps,
    \* ---- TwoPartySwap ----
    swaps,              \* mapping(bytes32 => Swap)
    assets,             \* mapping(bytes32 => Asset)
    premiums,           \* mapping(bytes32 => Premium)
    balanceOf,          \* the ERC20 token: account -> balance (the contract included)
    timestamp,          \* block.timestamp
    ledger,             \* per hashLock: what was escrowed and paid out so far, and to whom
    lastSwapCall,       \* the transaction mined last: function, sender, outcome, event
    \* ---- Miner ----
    Mining,             \* atomic.Bool
    SendBlock,          \* the blocks sent on the SendBlock channel, oldest first
    ChainLength,        \* atomic.Uint32
    lastMineCall,       \* the Miner call that returned last, with its inputs and result
    nMineOps,
    \* ---- LightningNode ----
    Channels,           \* map[*peer.Peer]*Channel
    lnPanicked,         \* a handler dereferenced a nil *Channel
    lastLnCall,         \* the LightningNode call that returned last
    nLnOps

coinVars == <<MainCache, db, MainCacheSize, MainCacheCapacity, panicked, chain, lastOp, nOps,
              validated, lastRead>>
cwVars == <<CurrentBlockFileNumber, CurrentBlockOffset, CurrentUndoFileNumber,
            CurrentUndoOffset, MaxBlockFileSize, MaxUndoFileSize, files, returned, nWrites,
            lastCall, restarts>>
biVars == <<blockInfoDB, putLog, lastInfoCall, nPuts>>
walletVars == <<Balance, CoinCollection, UnseenSpentCoins, UnconfirmedSpentCoins,
                UnconfirmedReceivedCoins, SafeBlockAmount, TransactionRequests, handled,
                lastWalletCall, nWalletOps>>
swapVars == <<swaps, assets, premiums, balanceOf, timestamp, ledger, lastSwapCall>>
minerVars == <<Mining, SendBlock, ChainLength, lastMineCall, nMineOps>>
lnVars == <<Channels, lnPanicked, lastLnCall, nLnOps>>
vars == <<MainCache, db, MainCacheSize, MainCacheCapacity, panicked, chain, lastOp, nOps,
          validated, lastRead,
          CurrentBlockFileNumber, CurrentBlockOffset, CurrentUndoFileNumber,
          CurrentUndoOffset, MaxBlockFileSize, MaxUndoFileSize, files, returned, nWrites,
          lastCall, restarts, blockInfoDB, putLog, lastInfoCall, nPuts,
          Balance, CoinCollection, UnseenSpentCoins, UnconfirmedSpentCoins,
          UnconfirmedReceivedCoins, SafeBlockAmount, TransactionRequests, handled,
          lastWalletCall, nWalletOps,
          swaps, assets, premiums, balanceOf, timestamp, ledger, lastSwapCall,
          Mining, SendBlock, ChainLength, lastMineCall, nMineOps,
          Channels, lnPanicked, lastLnCall, nLnOps>>

(***************************************************************************)
(* Bounds of the exploration.                                              *)
(***************************************************************************)
\* largest configured MainCacheCapacity explored (0 .. MaxCapacity)
MaxCapacity == 3
\* most coin database operations in one run
MaxOps == 4
\* most blocks handed to one UndoCoins call
MaxUndoDepth == 2

(***************************************************************************)
(* Transactions.  A transaction is identified by its hash (a content       *)
(* digest), so a hash fixes the inputs and the outputs.  Output indexes    *)
(* are 0-based as in the code; TLA+ sequences are 1-based.                 *)
(***************************************************************************)
Hashes == {"cb1", "s1", "s2", "r1"}

Out(a, s) == [Amount |-> a, LockingScript |-> s]

In(h, i) == [ReferenceTransactionHash |-> h, OutputIndex |-> i]

\* cb1 is a coinbase; s1 spends its output; s2 spends the first output of s1
\* and creates nothing; r1 is a rival of s1: it spends the same output of cb1.
TxInputs(h) ==
    CASE h = "cb1" -> <<>>
      [] h = "s1"  -> <<In("cb1", 0)>>
      [] h = "s2"  -> <<In("s1", 0)>>
      [] h = "r1"  -> <<In("cb1", 0)>>

TxOutputs(h) ==
    CASE h = "cb1" -> <<Out(50, "alice")>>
      [] h = "s1"  -> <<Out(30, "bob"), Out(20, "alice")>>
      [] h = "s2"  -> <<>>
      [] h = "r1"  -> <<Out(50, "carol")>>

\* the transaction lists handed to the coin database: one transaction, or two
\* different ones
Blocks ==
    {<<g>> : g \in Hashes} \cup {<<p[1], p[2]>> : p \in {q \in Hashes \X Hashes : q[1] # q[2]}}

\* makeCoinLocator: the CoinLocator of a transaction input
makeCoinLocator(txi) == <<txi.ReferenceTransactionHash, txi.OutputIndex>>

Locators == {<<h, i>> : h \in Hashes, i \in 0..1}

(***************************************************************************)
(* Slice helpers.                                                          *)
(***************************************************************************)
RECURSIVE indexFrom(_, _, _)
indexFrom(s, e, k) ==
    IF k > Len(s) THEN -1
    ELSE IF s[k] = e THEN k - 1
    ELSE indexFrom(s, e, k + 1)

\* indexOf returns the (0-based) index of the first e in s, -1 if there is none
indexOf(s, e) == indexFrom(s, e, 1)

\* contains returns whether s holds e
contains(s, e) == \E k \in 1..Len(s) : s[k] = e

\* append(s[:index], s[index+1:]...) with a 0-based index
RemoveAt(s, index) == SubSeq(s, 1, index) \o SubSeq(s, index + 2, Len(s))

(***************************************************************************)
(* CoinRecords and the persistent store.                                   *)
(***************************************************************************)
\* DecodeCoinRecord of a message unmarshalled from no data
EmptyRecord ==
    [Version |-> 0, OutputIndexes |-> <<>>, Amounts |-> <<>>, LockingScripts |-> <<>>]

dbPut(d, key, cr) == (key :> cr) @@ d

dbDelete(d, key) == [k \in (DOMAIN d) \ {key} |-> d[k]]

\* putRecordInDB: encode and Put under the transaction hash
putRecordInDB(d, txHash, cr) == dbPut(d, txHash, cr)

\* removeCoinFromRecord removes the coin with the given outputIndex, if listed
removeCoinFromRecord(cr, outputIndex) ==
    LET index == indexOf(cr.OutputIndexes, outputIndex) IN
    IF index < 0 THEN cr
    ELSE [cr EXCEPT !.OutputIndexes   = RemoveAt(@, index),
                    !.Amounts         = RemoveAt(@, index),
                    !.LockingScripts  = RemoveAt(@, index)]

\* addCoinToRecord that forgets the locking script
addCoinToRecord_noScript(cr, ub, index) ==
    [cr EXCEPT !.OutputIndexes = Append(@, ub.OutputIndexes[index]),
               !.Amounts = Append(@, ub.Amounts[index])]

\* addCoinToRecord appends entry `index` (1-based here) of the undo block
addCoinToRecord(cr, ub, index) ==
    [cr EXCEPT !.OutputIndexes  = Append(@, ub.OutputIndexes[index]),
               !.Amounts        = Append(@, ub.Amounts[index]),
               !.LockingScripts = Append(@, ub.LockingScripts[index])]

\* createCoinRecord with a loop that stops one output early
createCoinRecord_dropLast(h) ==
    LET outs == TxOutputs(h) IN
    [Version        |-> 0,
     OutputIndexes  |-> [k \in 1..(Len(outs) - 1) |-> k - 1],
     Amounts        |-> [k \in 1..(Len(outs) - 1) |-> outs[k].Amount],
     LockingScripts |-> [k \in 1..(Len(outs) - 1) |-> outs[k].LockingScript]]

\* createCoinRecord lists every output of the transaction
createCoinRecord(h) ==
    LET outs == TxOutputs(h) IN
    [Version        |-> 0,
     OutputIndexes  |-> [k \in 1..Len(outs) |-> k - 1],
     Amounts        |-> [k \in 1..Len(outs) |-> outs[k].Amount],
     LockingScripts |-> [k \in 1..Len(outs) |-> outs[k].LockingScript]]

\* removeCoinFromDB, called with a transaction hash and a locator
removeCoinFromDB(d, txHash, cl) ==
    IF txHash \notin DOMAIN d THEN d
    ELSE IF Len(d[txHash].Amounts) <= 1 THEN dbDelete(d, txHash)
    ELSE putRecordInDB(d, txHash, removeCoinFromRecord(d[txHash], cl[2]))


(***************************************************************************)
(* The coin database as a value: the operations below are functions from   *)
(* one such value (and the arguments) to the next.                         *)
(***************************************************************************)
CoinDB == [MainCache |-> MainCache, db |-> db, MainCacheSize |-> MainCacheSize,
           MainCacheCapacity |-> MainCacheCapacity, panicked |-> panicked]

\* New: an empty cache over an empty store
New(capacity) ==
    [MainCache |-> <<>>, db |-> <<>>, MainCacheSize |-> 0,
     MainCacheCapacity |-> capacity, panicked |-> FALSE]

\* getCoinRecordFromDB returns nil when the key is absent
hasRecord(d, txHash) == txHash \in DOMAIN d

mapDelete(m, key) == [k \in (DOMAIN m) \ {key} |-> m[k]]

(***************************************************************************)
(* ValidateBlock / validateTransaction                                     *)
(***************************************************************************)
\* validateInput that consults the persistent record before the cache
validateInput_storeFirst(c, txi) ==
    LET key == makeCoinLocator(txi) IN
    IF /\ txi.ReferenceTransactionHash \in DOMAIN c.db
       /\ contains(c.db[txi.ReferenceTransactionHash].OutputIndexes, txi.OutputIndex)
    THEN TRUE
    ELSE key \in DOMAIN c.MainCache /\ ~c.MainCache[key].IsSpent

\* one input of validateTransaction's loop: TRUE when it raises no error
validateInput(c, txi) ==
    LET key == makeCoinLocator(txi) IN
    IF key \in DOMAIN c.MainCache
    THEN ~c.MainCache[key].IsSpent
    ELSE /\ txi.ReferenceTransactionHash \in DOMAIN c.db
         /\ contains(c.db[txi.ReferenceTransactionHash].OutputIndexes, txi.OutputIndex)

validateTransaction(c, h) ==
    \A k \in 1..Len(TxInputs(h)) : validateInput(c, TxInputs(h)[k])

\* ValidateBlock that looks at the first transaction only
ValidateBlock_firstOnly(c, transactions) ==
    validateTransaction(c, transactions[1])

ValidateBlock(c, transactions) ==
    \A k \in 1..Len(transactions) : validateTransaction(c, transactions[k])

\* a validation that marks the cached coins it looks at as spent
ValidateBlockLeaves_marksSpent(c, transactions) ==
    [c EXCEPT !.MainCache =
        [l \in DOMAIN c.MainCache |->
            IF \E k \in 1..Len(transactions) : \E j \in 1..Len(TxInputs(transactions[k])) :
                   makeCoinLocator(TxInputs(transactions[k])[j]) = l
            THEN [c.MainCache[l] EXCEPT !.IsSpent = TRUE]
            ELSE c.MainCache[l]]]

\* the CoinDatabase ValidateBlock leaves behind: the two functions read the
\* cache map and the store (MainCache[key], db.Get) and assign to nothing
ValidateBlockLeaves(c, transactions) == c

(***************************************************************************)
(* FlushMainCache                                                          *)
(***************************************************************************)
\* The loop over the cache.  Go ranges over the map in an unspecified order;
\* every locator is visited once and removing the first occurrence of two
\* different indexes commutes, so the accumulated records do not depend on
\* the order and one order is taken.
RECURSIVE flushLoop(_, _, _)
flushLoop(c, todo, updatedCoinRecords) ==
    IF todo = {} THEN updatedCoinRecords
    ELSE LET cl  == CHOOSE x \in todo : TRUE
             h   == cl[1]
             cr0 == IF h \in DOMAIN updatedCoinRecords THEN updatedCoinRecords[h]
                    ELSE IF h \in DOMAIN c.db THEN c.db[h]
                    ELSE EmptyRecord
             cr  == IF c.MainCache[cl].IsSpent
                    THEN removeCoinFromRecord(cr0, cl[2])
                    ELSE cr0
         IN flushLoop(c, todo \ {cl}, (h :> cr) @@ updatedCoinRecords)

\* flushWrite that keeps only the records the flush has touched
flushWrite_onlyUpdated(d, updatedCoinRecords) ==
    LET keys    == DOMAIN updatedCoinRecords
        empties == {k \in keys : Len(updatedCoinRecords[k].OutputIndexes) = 0}
    IN [k \in keys \ empties |-> updatedCoinRecords[k]]

\* write the new records: delete the key of an empty record, put the others
flushWrite(d, updatedCoinRecords) ==
    LET keys    == DOMAIN updatedCoinRecords
        empties == {k \in keys : Len(updatedCoinRecords[k].OutputIndexes) = 0}
    IN [k \in ((DOMAIN d) \cup keys) \ empties |->
            IF k \in keys THEN updatedCoinRecords[k] ELSE d[k]]

FlushMainCache(c) ==
    LET updatedCoinRecords == flushLoop(c, DOMAIN c.MainCache, <<>>) IN
    [c EXCEPT !.MainCache = <<>>,
              !.MainCacheSize = 0,
              !.db = flushWrite(c.db, updatedCoinRecords)]

(***************************************************************************)
(* StoreBlock                                                              *)
(***************************************************************************)
\* (1) one input: mark the cached coin spent, or remove the coin from the db
storeInput(c, txHash, txi) ==
    LET cl == makeCoinLocator(txi) IN
    IF cl \notin DOMAIN c.MainCache
    THEN [c EXCEPT !.db = removeCoinFromDB(c.db, txHash, cl)]
    ELSE [c EXCEPT !.MainCache[cl].IsSpent = TRUE]

RECURSIVE storeInputs(_, _, _, _)
storeInputs(c, transactions, t, k) ==
    IF t > Len(transactions) THEN c
    ELSE IF k > Len(TxInputs(transactions[t])) THEN storeInputs(c, transactions, t + 1, 1)
    ELSE storeInputs(storeInput(c, transactions[t], TxInputs(transactions[t])[k]),
                     transactions, t, k + 1)

\* storeOutput that flushes only once the size exceeds the capacity
storeOutput_flushLate(c, txHash, idx) ==
    LET output == TxOutputs(txHash)[idx + 1]
        c1 == IF c.MainCacheSize > c.MainCacheCapacity THEN FlushMainCache(c) ELSE c
        coin_used == [Amount |-> output.Amount, LockingScript |-> output.LockingScript,
                      IsSpent |-> FALSE]
    IN [c1 EXCEPT !.MainCache = (<<txHash, idx>> :> coin_used) @@ c1.MainCache,
                  !.MainCacheSize = c1.MainCacheSize + 1]

\* (2) one output: flush at capacity, insert the coin, count it
storeOutput(c, txHash, idx) ==
    LET output == TxOutputs(txHash)[idx + 1]
        c1 == IF c.MainCacheSize >= c.MainCacheCapacity THEN FlushMainCache(c) ELSE c
        coin_used == [Amount |-> output.Amount, LockingScript |-> output.LockingScript,
                      IsSpent |-> FALSE]
    IN [c1 EXCEPT !.MainCache = (<<txHash, idx>> :> coin_used) @@ c1.MainCache,
                  !.MainCacheSize = c1.MainCacheSize + 1]

RECURSIVE storeOutputs(_, _, _, _)
storeOutputs(c, transactions, t, idx) ==
    IF t > Len(transactions) THEN c
    ELSE IF idx >= Len(TxOutputs(transactions[t])) THEN storeOutputs(c, transactions, t + 1, 0)
    ELSE storeOutputs(storeOutput(c, transactions[t], idx), transactions, t, idx + 1)

\* the states in which phase (2) calls FlushMainCache: the cache has reached
\* its capacity when an output is about to be inserted
RECURSIVE flushPoints(_, _, _, _)
flushPoints(c, transactions, t, idx) ==
    IF t > Len(transactions) THEN {}
    ELSE IF idx >= Len(TxOutputs(transactions[t])) THEN flushPoints(c, transactions, t + 1, 0)
    ELSE (IF c.MainCacheSize >= c.MainCacheCapacity THEN {c} ELSE {})
         \cup flushPoints(storeOutput(c, transactions[t], idx), transactions, t, idx + 1)

\* storeRecords that writes the record of the first transaction only
storeRecords_firstOnly(c, transactions, t) ==
    IF t > Len(transactions) THEN c
    ELSE [c EXCEPT !.db = putRecordInDB(c.db, transactions[t],
                                        createCoinRecord(transactions[t]))]

\* (3) the CoinRecord of every transaction of the block
RECURSIVE storeRecords(_, _, _)
storeRecords(c, transactions, t) ==
    IF t > Len(transactions) THEN c
    ELSE storeRecords([c EXCEPT !.db = putRecordInDB(c.db, transactions[t],
                                                     createCoinRecord(transactions[t]))],
                      transactions, t + 1)

StoreBlock(c, transactions) ==
    storeRecords(storeOutputs(storeInputs(c, transactions, 1, 1), transactions, 1, 0),
                 transactions, 1)

(***************************************************************************)
(* UndoBlocks.  The caller builds the undo block of a block from the       *)
(* outputs its inputs consume, in input order.                             *)
(***************************************************************************)
RECURSIVE blockInputs(_, _)
blockInputs(transactions, t) ==
    IF t > Len(transactions) THEN <<>>
    ELSE TxInputs(transactions[t]) \o blockInputs(transactions, t + 1)

UndoBlockOf(transactions) ==
    LET ins == blockInputs(transactions, 1)
        ref(k) == TxOutputs(ins[k].ReferenceTransactionHash)[ins[k].OutputIndex + 1]
    IN [TransactionInputHashes |-> [k \in 1..Len(ins) |-> ins[k].ReferenceTransactionHash],
        OutputIndexes          |-> [k \in 1..Len(ins) |-> ins[k].OutputIndex],
        Amounts                |-> [k \in 1..Len(ins) |-> ref(k).Amount],
        LockingScripts         |-> [k \in 1..Len(ins) |-> ref(k).LockingScript]]

(***************************************************************************)
(* UndoCoins.  A nil CoinRecord reaching removeCoinFromRecord or           *)
(* addCoinToRecord is dereferenced: the goroutine panics and the call      *)
(* never returns; what it changed before that point stays changed.         *)
(***************************************************************************)
\* (1) one output of a transaction of the undone block: drop the cache entry,
\* then removeCoinFromRecord on the record read before the loop (its result
\* is a local value that is never written back)
undoOutput(c, txHash, idx, recordIsNil) ==
    IF c.panicked THEN c
    ELSE [c EXCEPT !.MainCache = mapDelete(c.MainCache, <<txHash, idx>>),
                   !.panicked = recordIsNil]

RECURSIVE undoOutputs(_, _, _, _)
undoOutputs(c, txHash, idx, recordIsNil) ==
    IF idx >= Len(TxOutputs(txHash)) THEN c
    ELSE undoOutputs(undoOutput(c, txHash, idx, recordIsNil), txHash, idx + 1, recordIsNil)

\* one transaction of the undone block: its outputs, then Delete of its key
undoTransaction(c, txHash) ==
    LET c1 == undoOutputs(c, txHash, 0, ~hasRecord(c.db, txHash)) IN
    IF c1.panicked THEN c1
    ELSE [c1 EXCEPT !.db = dbDelete(c1.db, txHash)]

RECURSIVE undoTransactions(_, _, _)
undoTransactions(c, transactions, t) ==
    IF t > Len(transactions) \/ c.panicked THEN c
    ELSE undoTransactions(undoTransaction(c, transactions[t]), transactions, t + 1)

\* (2) one entry of the undo block: un-spend the cached coin, add the coin
\* back to the record read from the db
undoRevive(c, ub, idx) ==
    LET tx_hash      == ub.TransactionInputHashes[idx]
        coin_locator == <<tx_hash, ub.OutputIndexes[idx]>>
        c1 == IF coin_locator \in DOMAIN c.MainCache
              THEN [c EXCEPT !.MainCache[coin_locator].IsSpent = FALSE]
              ELSE c
    IN IF ~hasRecord(c.db, tx_hash)
       THEN [c1 EXCEPT !.panicked = TRUE]
       ELSE [c1 EXCEPT !.db = putRecordInDB(c1.db, tx_hash,
                                            addCoinToRecord(c1.db[tx_hash], ub, idx))]

RECURSIVE undoRevives(_, _, _)
undoRevives(c, ub, idx) ==
    IF idx > Len(ub.TransactionInputHashes) \/ c.panicked THEN c
    ELSE undoRevives(undoRevive(c, ub, idx), ub, idx + 1)

RECURSIVE undoLoop(_, _, _, _)
undoLoop(c, blocks, undoBlocks, i) ==
    IF i > Len(blocks) \/ c.panicked THEN c
    ELSE undoLoop(undoRevives(undoTransactions(c, blocks[i], 1), undoBlocks[i], 1),
                  blocks, undoBlocks, i + 1)

UndoCoins(c, blocks, undoBlocks) == undoLoop(c, blocks, undoBlocks, 1)

\* GetCoin that looks at the persistent record only
GetCoin_recordOnly(c, cl) ==
    IF ~hasRecord(c.db, cl[1]) THEN <<>>
    ELSE LET cr == c.db[cl[1]]
             index == indexOf(cr.OutputIndexes, cl[2])
         IN IF index < 0 THEN <<>>
            ELSE <<[Amount |-> cr.Amounts[index + 1],
                    LockingScript |-> cr.LockingScripts[index + 1],
                    IsSpent |-> FALSE]>>

\* the CoinDatabase GetCoin leaves behind: it reads MainCache[cl] and the
\* record and builds a new Coin; it assigns to no field and no map entry
GetCoinLeaves(c, cl) == c

\* GetCoin: the cache entry, else the coin rebuilt from the record, else nil
GetCoin(c, cl) ==
    IF cl \in DOMAIN c.MainCache THEN <<c.MainCache[cl]>>
    ELSE IF ~hasRecord(c.db, cl[1]) THEN <<>>
    ELSE LET cr == c.db[cl[1]]
             index == indexOf(cr.OutputIndexes, cl[2])
         IN IF index < 0 THEN <<>>
            ELSE <<[Amount |-> cr.Amounts[index + 1],
                    LockingScript |-> cr.LockingScripts[index + 1],
                    IsSpent |-> FALSE]>>

(***************************************************************************)
(* The coin database driven by its caller: blocks are applied after        *)
(* ValidateBlock accepted them, and undone newest first with the undo      *)
(* block of each.                                                          *)
(***************************************************************************)
\* no ChainWriter call has returned yet
NoCall == [op |-> "New", writes |-> <<>>]

\* chainwriter.New over an empty data directory
CWInitValues(maxBlockFileSize, maxUndoFileSize) ==
    /\ CurrentBlockFileNumber = 0
    /\ CurrentBlockOffset = 0
    /\ CurrentUndoFileNumber = 0
    /\ CurrentUndoOffset = 0
    /\ MaxBlockFileSize = maxBlockFileSize
    /\ MaxUndoFileSize = maxUndoFileSize
    /\ files = <<>>
    /\ returned = {}
    /\ nWrites = 0
    /\ lastCall = NoCall
    /\ restarts = 0

\* blockinfodatabase.New over an empty database
BIInitValues ==
    /\ blockInfoDB = <<>>
    /\ putLog = <<>>
    /\ lastInfoCall = [op |-> "New"]
    /\ nPuts = 0

\* wallet.New
NoWalletCall == [op |-> "New", decreases |-> <<>>]

WalletInitValues(safeBlockAmount) ==
    /\ Balance = 0
    /\ CoinCollection = {}
    /\ UnseenSpentCoins = <<>>
    /\ UnconfirmedSpentCoins = <<>>
    /\ UnconfirmedReceivedCoins = <<>>
    /\ SafeBlockAmount = safeBlockAmount
    /\ TransactionRequests = {}
    /\ handled = {}
    /\ lastWalletCall = NoWalletCall
    /\ nWalletOps = 0

\* the accounts, address(0), the contract's own address, the hash locks and
\* the preimages callers present
Accounts == {"alice", "bob", "eve"}
ZeroAddress == "0x0"
ThisContract == "this"
HashLocks == {"h1"}
Preimages == {"p1", "p2", "px"}

\* the tokens alice and bob own when the contract is deployed
InitialTokens == 2

\* default values of the three mappings
NoSwap == [assetEscrower |-> ZeroAddress, premiumEscrower |-> ZeroAddress,
           hashLock |-> "", assetAddress |-> ZeroAddress]
NoAsset == [expected |-> 0, current |-> 0, deadline |-> 0, timeout |-> 0]
NoPremium == [expected |-> 0, current |-> 0, deadline |-> 0]
NoLedger == [assetIn |-> 0, assetOut |-> 0, premiumIn |-> 0, premiumOut |-> 0,
             delta |-> 0, assetRedeemed |-> FALSE]
NoSwapCall == [op |-> "deploy", ok |-> TRUE]

\* the deployed contract
SwapInitValues ==
    /\ swaps = [h \in HashLocks |-> NoSwap]
    /\ assets = [h \in HashLocks |-> NoAsset]
    /\ premiums = [h \in HashLocks |-> NoPremium]
    /\ balanceOf = [a \in Accounts \cup {ThisContract} |->
                       IF a \in {"alice", "bob"} THEN InitialTokens ELSE 0]
    /\ timestamp = 0
    /\ ledger = [h \in HashLocks |-> NoLedger]
    /\ lastSwapCall = NoSwapCall

\* the miner before its first call
NoMineCall == [op |-> "New"]

MinerInitValues(chainLength) ==
    /\ Mining = FALSE
    /\ SendBlock = <<>>
    /\ ChainLength = chainLength
    /\ lastMineCall = NoMineCall
    /\ nMineOps = 0

\* the lightning node before its first call
NoLnCall == [op |-> "New"]

LnInitValues ==
    /\ Channels = <<>>
    /\ lnPanicked = FALSE
    /\ lastLnCall = NoLnCall
    /\ nLnOps = 0

NoOp == [op |-> "New", blocks |-> <<>>, pre |-> New(0)]

\* GetCoin was not the last call
NoRead == [op |-> "none"]

CoinInitValues(capacity) ==
    /\ MainCache = New(capacity).MainCache
    /\ db = New(capacity).db
    /\ MainCacheSize = New(capacity).MainCacheSize
    /\ MainCacheCapacity = New(capacity).MainCacheCapacity
    /\ panicked = FALSE
    /\ chain = <<>>
    /\ lastOp = NoOp
    /\ nOps = 0
    /\ validated = "none"
    /\ lastRead = NoRead

Init ==
    /\ \E capacity \in 0..MaxCapacity : CoinInitValues(capacity)
    /\ CWInitValues(0, 0)
    /\ BIInitValues
    /\ WalletInitValues(0)
    /\ SwapInitValues
    /\ MinerInitValues(0)
    /\ LnInitValues

\* the coin database variables take the value c
Becomes(c) ==
    /\ MainCache' = c.MainCache
    /\ db' = c.db
    /\ MainCacheSize' = c.MainCacheSize
    /\ MainCacheCapacity' = c.MainCacheCapacity
    /\ panicked' = c.panicked

\* the last n blocks of the chain, newest first
Newest(n) == [k \in 1..n |-> chain[Len(chain) + 1 - k]]

DoStoreBlock ==
    \E transactions \in Blocks :
        /\ ~panicked
        /\ nOps < MaxOps
        /\ ValidateBlock(CoinDB, transactions)
        /\ Becomes(StoreBlock(CoinDB, transactions))
        /\ chain' = Append(chain, transactions)
        /\ lastOp' = [op |-> "StoreBlock", blocks |-> <<transactions>>, pre |-> CoinDB]
        /\ nOps' = nOps + 1
        /\ validated' = "none" /\ lastRead' = NoRead
        /\ UNCHANGED <<cwVars, biVars, walletVars, swapVars, minerVars, lnVars>>

DoUndoCoins ==
    \E n \in 1..MaxUndoDepth :
        /\ ~panicked
        /\ nOps < MaxOps
        /\ n <= Len(chain)
        /\ LET blocks == Newest(n)
               undoBlocks == [k \in 1..n |-> UndoBlockOf(blocks[k])]
           IN /\ Becomes(UndoCoins(CoinDB, blocks, undoBlocks))
              /\ lastOp' = [op |-> "UndoCoins", blocks |-> blocks, pre |-> CoinDB]
        /\ chain' = SubSeq(chain, 1, Len(chain) - n)
        /\ nOps' = nOps + 1
        /\ validated' = "none" /\ lastRead' = NoRead
        /\ UNCHANGED <<cwVars, biVars, walletVars, swapVars, minerVars, lnVars>>

DoFlushMainCache ==
    /\ ~panicked
    /\ nOps < MaxOps
    /\ Becomes(FlushMainCache(CoinDB))
    /\ lastOp' = [op |-> "FlushMainCache", blocks |-> <<>>, pre |-> CoinDB]
    /\ nOps' = nOps + 1
    /\ validated' = "none" /\ lastRead' = NoRead
    /\ UNCHANGED <<chain>>
    /\ UNCHANGED <<cwVars, biVars, walletVars, swapVars, minerVars, lnVars>>

\* the caller asks whether a block is valid, ahead of a further operation;
\* nothing else happens
DoValidateBlock ==
    \E transactions \in Blocks :
        /\ ~panicked
        /\ nOps < MaxOps
        /\ Becomes(ValidateBlockLeaves(CoinDB, transactions))
        /\ validated' = IF ValidateBlock(CoinDB, transactions) THEN "true" ELSE "false"
        /\ lastRead' = NoRead
        /\ UNCHANGED <<chain, lastOp, nOps>>
        /\ UNCHANGED <<cwVars, biVars, walletVars, swapVars, minerVars, lnVars>>

Next ==
    \/ DoStoreBlock
    \/ DoUndoCoins
    \/ DoFlushMainCache

Spec == Init /\ [][Next]_vars

\* the caller looks a coin up, ahead of a further operation
DoGetCoin ==
    \E cl \in Locators :
        /\ ~panicked
        /\ nOps < MaxOps
        /\ Becomes(GetCoinLeaves(CoinDB, cl))
        /\ lastRead' = [op |-> "GetCoin", cl |-> cl, result |-> GetCoin(CoinDB, cl),
                        pre |-> CoinDB]
        /\ validated' = "none"
        /\ UNCHANGED <<chain, lastOp, nOps>>
        /\ UNCHANGED <<cwVars, biVars, walletVars, swapVars, minerVars, lnVars>>

\* the same operations, with the caller's GetCoin calls as steps
NextReading ==
    \/ DoStoreBlock
    \/ DoUndoCoins
    \/ DoFlushMainCache
    \/ DoGetCoin

SpecReading == Init /\ [][NextReading]_vars

\* the same operations, with the caller's ValidateBlock calls as steps
NextValidating ==
    \/ DoStoreBlock
    \/ DoUndoCoins
    \/ DoFlushMainCache
    \/ DoValidateBlock

SpecValidating == Init /\ [][NextValidating]_vars

(***************************************************************************)
(* What the caller's chain says about the coins.                           *)
(***************************************************************************)
\* the locators referenced by the inputs of a block
InputLocators(transactions) ==
    {makeCoinLocator(blockInputs(transactions, 1)[j]) :
        j \in 1..Len(blockInputs(transactions, 1))}

\* the locators of the outputs a block creates
OutputLocators(transactions) ==
    {l \in Locators : /\ \E t \in 1..Len(transactions) : transactions[t] = l[1]
                      /\ l[2] < Len(TxOutputs(l[1]))}

\* outputs created / consumed by the blocks applied and not undone
Created == UNION {OutputLocators(chain[k]) : k \in 1..Len(chain)}

Consumed == UNION {InputLocators(chain[k]) : k \in 1..Len(chain)}

Unspent == Created \ Consumed

\* no transaction occurs twice in the blocks applied and not undone
UniqueChain(ch) ==
    \A k1, k2 \in 1..Len(ch) : \A j1 \in 1..Len(ch[k1]) : \A j2 \in 1..Len(ch[k2]) :
        ch[k1][j1] = ch[k2][j2] => (k1 = k2 /\ j1 = j2)

\* the persistent CoinRecord of the locator's transaction lists its output
Listed(c, l) == l[1] \in DOMAIN c.db /\ contains(c.db[l[1]].OutputIndexes, l[2])

\* the set of output indexes a record lists
IndexSet(cr) == {cr.OutputIndexes[k] : k \in 1..Len(cr.OutputIndexes)}

\* StoreBlock of these transactions flushes the cache while inserting outputs
FlushesOnInsert(c, transactions) ==
    /\ OutputLocators(transactions) # {}
    /\ c.MainCacheSize + Cardinality(OutputLocators(transactions)) > c.MainCacheCapacity

(***************************************************************************)
(* Claims about the coin database.                                         *)
(***************************************************************************)

\* C1 (as claimed): once an applied block has consumed output (h, i), and the
\* block was not undone, ValidateBlock rejects every block with an input
\* referencing (h, i).  Stated for a capacity of at least 1 and for chains
\* that apply each transaction once, so that a violation never rests on an
\* output created a second time.
C1_ValidationMonotonicity ==
    (~panicked /\ MainCacheCapacity >= 1 /\ UniqueChain(chain)) =>
        \A l \in Consumed : \A b \in Blocks :
            l \in InputLocators(b) => ~ValidateBlock(CoinDB, b)

\* C2 (as claimed): from every reachable state, StoreBlock of an accepted
\* block (of transactions not yet in the chain) followed by UndoCoins of that
\* block with its undo block returns, and leaves the cache and every
\* persisted CoinRecord as they were.
C2_Reversibility ==
    (~panicked /\ MainCacheCapacity >= 1) =>
        \A b \in Blocks :
            (ValidateBlock(CoinDB, b) /\ UniqueChain(Append(chain, b))) =>
                LET c2 == UndoCoins(StoreBlock(CoinDB, b), <<b>>, <<UndoBlockOf(b)>>)
                IN /\ ~c2.panicked
                   /\ c2.MainCache = MainCache
                   /\ c2.db = db

\* C4 (as claimed): when FlushMainCache returns after any StoreBlock /
\* UndoCoins history, MainCacheSize is 0, the cache is empty and every unspent
\* output of the chain is listed in the CoinRecord of its transaction.
C4_FlushKeepsUnspent ==
    (~panicked /\ MainCacheCapacity >= 1 /\ lastOp.op = "FlushMainCache") =>
        /\ MainCacheSize = 0
        /\ MainCache = <<>>
        /\ \A l \in Unspent : Listed(CoinDB, l)

\* the run so far is StoreBlock calls only, followed by one FlushMainCache
OnlyStoresThenFlush ==
    /\ ~panicked
    /\ lastOp.op = "FlushMainCache"
    /\ nOps = Len(chain) + 1

\* C5 (as claimed): after StoreBlock calls only (each transaction applied
\* once) and a final FlushMainCache, each transaction's CoinRecord lists
\* exactly its outputs that no applied block consumed, and a transaction with
\* no such output has no CoinRecord.
C5_RecordsAreExact ==
    (OnlyStoresThenFlush /\ MainCacheCapacity >= 1 /\ UniqueChain(chain)) =>
        \A h \in Hashes :
            LET remaining == {l[2] : l \in {u \in Unspent : u[1] = h}} IN
            IF remaining = {} THEN h \notin DOMAIN db
            ELSE h \in DOMAIN db /\ IndexSet(db[h]) = remaining

\* C6 (as claimed): after every public operation, no pair is both in the
\* cache with is-spent = false and listed in its persistent CoinRecord.
C6_DisjointTiers ==
    ~panicked =>
        \A l \in DOMAIN MainCache : ~(~MainCache[l].IsSpent /\ Listed(CoinDB, l))

\* C6 (amended): after every public operation, every pair that is in the
\* cache with is-spent = false is also listed in its persistent CoinRecord.
C6_CachedUnspentIsListed ==
    ~panicked =>
        \A l \in DOMAIN MainCache : ~MainCache[l].IsSpent => Listed(CoinDB, l)

\* C6 witness: StoreBlock flushed while inserting, and returned with an
\* unspent coin in the cache that its CoinRecord lists.
C6_Witness ==
    /\ ~panicked
    /\ lastOp.op = "StoreBlock"
    /\ FlushesOnInsert(lastOp.pre, lastOp.blocks[1])
    /\ \E l \in DOMAIN MainCache : ~MainCache[l].IsSpent /\ Listed(CoinDB, l)

\* the inputs of the block StoreBlock just applied that were in the cache
ConsumedFromCache ==
    IF lastOp.op = "StoreBlock"
    THEN InputLocators(lastOp.blocks[1]) \cap DOMAIN lastOp.pre.MainCache
    ELSE {}

\* C7: when StoreBlock consumes an input whose locator is in the cache, its
\* input loop leaves the entry in the cache with is-spent = true; and in
\* every state ValidateBlock rejects every block with an input referencing a
\* locator cached with is-spent = true, whatever the persistent CoinRecord
\* lists.
C7_CacheOverridesStore ==
    ~panicked =>
        /\ \A l \in ConsumedFromCache :
              LET c1 == storeInputs(lastOp.pre, lastOp.blocks[1], 1, 1) IN
              l \in DOMAIN c1.MainCache /\ c1.MainCache[l].IsSpent
        /\ \A l \in DOMAIN MainCache :
              MainCache[l].IsSpent =>
                  \A b \in Blocks : l \in InputLocators(b) => ~ValidateBlock(CoinDB, b)

\* C7 witness: StoreBlock consumed a cached coin, the entry is still cached as
\* spent, and the persistent CoinRecord still lists the output.
C7_Witness ==
    /\ ~panicked
    /\ \E l \in ConsumedFromCache :
          /\ l \in DOMAIN MainCache
          /\ MainCache[l].IsSpent
          /\ Listed(CoinDB, l)
          /\ \E b \in Blocks : l \in InputLocators(b)

\* C8 (as claimed): MainCacheSize is the number of entries of the cache map
\* (stated for chains that apply each transaction once).
C8_SizeIsEntryCount ==
    (~panicked /\ MainCacheCapacity >= 1 /\ UniqueChain(chain)) =>
        MainCacheSize = Cardinality(DOMAIN MainCache)

\* C9 (as claimed): for every MainCacheCapacity, MainCacheSize is at most
\* MainCacheCapacity whenever a public operation returns.
C9_SizeWithinCapacity ==
    ~panicked => MainCacheSize <= MainCacheCapacity

\* C9 (amended): for every MainCacheCapacity of at least 1, MainCacheSize is
\* at most MainCacheCapacity whenever a public operation returns.
C9_SizeWithinPositiveCapacity ==
    (~panicked /\ MainCacheCapacity >= 1) => MainCacheSize <= MainCacheCapacity

\* C9 witness: StoreBlock found the cache at capacity, flushed before
\* inserting, and returned within the capacity.
C9_Witness ==
    /\ ~panicked
    /\ lastOp.op = "StoreBlock"
    /\ MainCacheCapacity >= 1
    /\ lastOp.pre.MainCacheSize = MainCacheCapacity
    /\ OutputLocators(lastOp.blocks[1]) # {}
    /\ MainCacheSize <= MainCacheCapacity

\* C10 (as claimed): in every CoinRecord of the store, the output indexes are
\* pairwise distinct and each is an output index of the record's transaction
\* (stated for chains that apply each transaction once).
C10_RecordIndexesDistinct ==
    UniqueChain(chain) =>
        \A h \in DOMAIN db :
            LET s == db[h].OutputIndexes IN
            /\ \A i, j \in 1..Len(s) : i # j => s[i] # s[j]
            /\ \A i \in 1..Len(s) : s[i] < Len(TxOutputs(h))

\* C11 (as claimed): the persistent store never maps a key to a CoinRecord
\* with an empty output list.
C11_NoEmptyRecord ==
    \A h \in DOMAIN db : Len(db[h].OutputIndexes) > 0

\* C12: every CoinRecord in the persistent store has output-indexes, amounts
\* and locking-scripts of the same length, and position j of the three
\* arrays gives the amount and the locking script of output
\* output-indexes[j] of the record's transaction.
C12_ParallelArrays ==
    \A h \in DOMAIN db :
        LET cr == db[h] IN
        /\ Len(cr.OutputIndexes) = Len(cr.Amounts)
        /\ Len(cr.OutputIndexes) = Len(cr.LockingScripts)
        /\ \A j \in 1..Len(cr.OutputIndexes) :
              /\ cr.OutputIndexes[j] < Len(TxOutputs(h))
              /\ cr.Amounts[j] = TxOutputs(h)[cr.OutputIndexes[j] + 1].Amount
              /\ cr.LockingScripts[j] = TxOutputs(h)[cr.OutputIndexes[j] + 1].LockingScript

\* C12 witness: UndoCoins returned after adding a revived output to a
\* CoinRecord that lists another entry as well.
C12_Witness ==
    /\ ~panicked
    /\ lastOp.op = "UndoCoins"
    /\ \E l \in InputLocators(lastOp.blocks[1]) :
          /\ l[1] \in DOMAIN db
          /\ Len(db[l[1]].OutputIndexes) >= 2
          /\ Len(db[l[1]].LockingScripts) >= 2

\* an input passes: its locator is cached with is-spent = false, or it is
\* absent from the cache and listed in the record of the referenced hash
InputPasses(l) ==
    \/ l \in DOMAIN MainCache /\ ~MainCache[l].IsSpent
    \/ l \notin DOMAIN MainCache /\ Listed(CoinDB, l)

\* C13: ValidateBlock returns true exactly when every input of every
\* transaction passes, and false in every other case.
C13_ValidateBlockExact ==
    ~panicked =>
        \A b \in Blocks :
            ValidateBlock(CoinDB, b) <=> (\A l \in InputLocators(b) : InputPasses(l))

\* C13 witness: ValidateBlock returned true, in a state where one block is
\* accepted through the persistent store alone and another is rejected on a
\* coin that is cached as spent.
C13_Witness ==
    /\ validated = "true"
    /\ \E b \in Blocks :
          /\ ValidateBlock(CoinDB, b)
          /\ InputLocators(b) # {}
          /\ InputLocators(b) \cap DOMAIN MainCache = {}
    /\ \E b \in Blocks :
          /\ ~ValidateBlock(CoinDB, b)
          /\ \E l \in InputLocators(b) : l \in DOMAIN MainCache /\ MainCache[l].IsSpent

\* C14: a call of ValidateBlock leaves the cache map (the is-spent flags
\* included), MainCacheSize, MainCacheCapacity and the persistent store as
\* they were, whether it returns true or false.
C14_ValidateBlockChangesNothing ==
    [][validated' # "none" => UNCHANGED <<MainCache, db, MainCacheSize, MainCacheCapacity>>]_vars

\* C14 witness: ValidateBlock returned false on a database with a cached
\* coin and a persisted record.
C14_Witness ==
    /\ validated = "false"
    /\ MainCache # <<>>
    /\ db # <<>>

\* what the claim says GetCoin returns for a locator: the cache entry; else
\* the coin at the position of the record that lists the index; else nil
ExpectedCoin(l) ==
    IF l \in DOMAIN MainCache THEN <<MainCache[l]>>
    ELSE IF Listed(CoinDB, l)
    THEN LET cr == db[l[1]]
             j  == CHOOSE j \in 1..Len(cr.OutputIndexes) :
                       /\ cr.OutputIndexes[j] = l[2]
                       /\ \A i \in 1..(j - 1) : cr.OutputIndexes[i] # l[2]
         IN <<[Amount |-> cr.Amounts[j], LockingScript |-> cr.LockingScripts[j],
               IsSpent |-> FALSE]>>
    ELSE <<>>

\* C21: GetCoin returns the cache entry of a cached locator (with its
\* is-spent flag), else the coin stored at the listed position of the
\* CoinRecord with is-spent = false, else nil; and the call leaves the cache
\* and the store as they were.
C21_GetCoinReadsBothTiers ==
    ~panicked =>
        /\ \A l \in Locators : GetCoin(CoinDB, l) = ExpectedCoin(l)
        /\ lastRead.op = "GetCoin" =>
              /\ lastRead.result = ExpectedCoin(lastRead.cl)
              /\ lastRead.pre = CoinDB

\* C21 witness: GetCoin returned a coin rebuilt from the CoinRecord for a
\* locator that is not cached, while another coin is cached as spent.
C21_Witness ==
    /\ lastRead.op = "GetCoin"
    /\ lastRead.cl \notin DOMAIN MainCache
    /\ lastRead.result # <<>>
    /\ \E l \in DOMAIN MainCache : MainCache[l].IsSpent /\ GetCoin(CoinDB, l) = <<MainCache[l]>>

\* C22: FlushMainCache called twice in a row leaves the store after the
\* second call identical to the store after the first, with the cache empty
\* and MainCacheSize = 0; checked for the two calls made from every
\* reachable state, and for every flush that was made on a flushed cache.
C22_FlushIdempotent ==
    ~panicked =>
        /\ LET c1 == FlushMainCache(CoinDB)
               c2 == FlushMainCache(c1)
           IN /\ c2.db = c1.db
              /\ c2.MainCache = <<>>
              /\ c2.MainCacheSize = 0
        /\ (/\ lastOp.op = "FlushMainCache"
            /\ lastOp.pre.MainCache = <<>>
            /\ lastOp.pre.MainCacheSize = 0) =>
                 /\ db = lastOp.pre.db
                 /\ MainCache = <<>>
                 /\ MainCacheSize = 0

\* two flushes in a row, the first of which wrote and deleted records
C22_Witness ==
    /\ lastOp.op = "FlushMainCache"
    /\ lastOp.pre.MainCache = <<>>
    /\ lastOp.pre.MainCacheSize = 0
    /\ nOps = MaxOps
    /\ Len(chain) = 2
    /\ db # <<>>
    /\ \E l \in Consumed : ~Listed(CoinDB, l)

\* the flushes that can begin: the explicit call in the current state, and
\* the calls StoreBlock of an accepted block makes at capacity, whose record
\* of the block's own outputs is written only after the flush (phase 3)
FlushBegins ==
    {[c |-> CoinDB, pending |-> {}]} \cup
    UNION {{[c |-> x, pending |-> OutputLocators(b)] :
               x \in flushPoints(storeInputs(CoinDB, b, 1, 1), b, 1, 0)} :
             b \in {y \in Blocks : /\ ValidateBlock(CoinDB, y)
                                   /\ UniqueChain(Append(chain, y))}}

\* C23 (as claimed): when FlushMainCache returns, whether called explicitly
\* or by StoreBlock at capacity, no coin that was cached as spent when the
\* flush began is still listed in its CoinRecord, and every coin that was
\* cached as unspent is still listed (the outputs of the block being stored
\* are listed once StoreBlock has written their record).  Stated for chains
\* that apply each transaction once.
C23_EvictionSafety ==
    (~panicked /\ UniqueChain(chain)) =>
        \A f \in FlushBegins :
            LET c1 == FlushMainCache(f.c) IN
            \A l \in DOMAIN f.c.MainCache :
                IF f.c.MainCache[l].IsSpent THEN ~Listed(c1, l)
                ELSE l \notin f.pending => Listed(c1, l)

\* C24 (as claimed): UndoCoins erases what each undone block created.  Its
\* first step runs to the end also when the CoinRecord of a transaction of
\* the block is absent from the store before the call, and once UndoCoins
\* has returned every output locator of every undone transaction is absent
\* from the cache and listed in no CoinRecord.
C24_UndoErasesCreated ==
    lastOp.op = "UndoCoins" =>
        /\ ~undoTransactions(lastOp.pre, lastOp.blocks[1], 1).panicked
        /\ ~panicked =>
              \A k \in 1..Len(lastOp.blocks) : \A l \in OutputLocators(lastOp.blocks[k]) :
                  /\ l \notin DOMAIN MainCache
                  /\ ~Listed(CoinDB, l)

\* the entries of the undo blocks of the last UndoCoins call, as locators
\* with the amount and the locking script the undo block carries
RevivedBy(blocks) ==
    UNION {LET ub == UndoBlockOf(blocks[k]) IN
           {[cl |-> <<ub.TransactionInputHashes[j], ub.OutputIndexes[j]>>,
             Amount |-> ub.Amounts[j],
             LockingScript |-> ub.LockingScripts[j]] :
               j \in 1..Len(ub.TransactionInputHashes)} : k \in 1..Len(blocks)}

\* C25 (as claimed): UndoCoins revives what each undone block spent, whether
\* or not a CoinRecord of the referenced transaction existed before the call.
\* The second step of the first undone block runs to the end, and once
\* UndoCoins has returned, for every undo entry that no undone block created,
\* the cache entry (if any) has is-spent = false, the CoinRecord lists the
\* output with the entry's amount and locking script, and ValidateBlock
\* accepts a block spending it.
C25_UndoRevivesSpent ==
    lastOp.op = "UndoCoins" =>
        /\ LET c1 == undoTransactions(lastOp.pre, lastOp.blocks[1], 1) IN
           ~c1.panicked => ~undoRevives(c1, UndoBlockOf(lastOp.blocks[1]), 1).panicked
        /\ ~panicked =>
              \A e \in RevivedBy(lastOp.blocks) :
                  (\A k \in 1..Len(lastOp.blocks) : e.cl \notin OutputLocators(lastOp.blocks[k])) =>
                      /\ e.cl \in DOMAIN MainCache => ~MainCache[e.cl].IsSpent
                      /\ Listed(CoinDB, e.cl)
                      /\ LET cr == db[e.cl[1]]
                             index == indexOf(cr.OutputIndexes, e.cl[2])
                         IN /\ cr.Amounts[index + 1] = e.Amount
                            /\ cr.LockingScripts[index + 1] = e.LockingScript
                      /\ \A h \in Hashes :
                            (\E j \in 1..Len(TxInputs(h)) : makeCoinLocator(TxInputs(h)[j]) = e.cl)
                                => ValidateBlock(CoinDB, <<h>>)

\* C26 (as claimed): when StoreBlock consumes an input (h, i) whose locator
\* is not in the cache, that step removes output i from the CoinRecord stored
\* under the referenced hash h (deleting the key when it was the last output)
\* and leaves the CoinRecords of all other transactions unchanged.  Checked
\* for the first input of every accepted block.
C26_UncachedInputLeavesRecord ==
    ~panicked =>
        \A h \in Hashes :
            (validateTransaction(CoinDB, h) /\ TxInputs(h) # <<>>) =>
                LET txi == TxInputs(h)[1]
                    cl  == makeCoinLocator(txi)
                    c1  == storeInput(CoinDB, h, txi)
                IN cl \notin DOMAIN MainCache =>
                      /\ ~Listed(c1, cl)
                      /\ \A g \in Hashes \ {cl[1]} :
                            /\ (g \in DOMAIN c1.db) = (g \in DOMAIN db)
                            /\ g \in DOMAIN db => c1.db[g] = db[g]

\* C27: after StoreBlock returns, for a capacity of at least 1 and also when
\* the cache was flushed while the block's outputs were inserted, GetCoin
\* returns for every output (tx.hash, i) of the block a coin with the
\* output's amount and locking script and is-spent = false, and the store
\* holds under tx.hash a CoinRecord listing all of the transaction's outputs.
C27_StoredOutputsReadable ==
    (lastOp.op = "StoreBlock" /\ ~panicked /\ MainCacheCapacity >= 1) =>
        \A t \in 1..Len(lastOp.blocks[1]) :
            LET h == lastOp.blocks[1][t] IN
            /\ h \in DOMAIN db
            /\ db[h] = createCoinRecord(h)
            /\ db[h].OutputIndexes = [i \in 1..Len(TxOutputs(h)) |-> i - 1]
            /\ \A i \in 0..(Len(TxOutputs(h)) - 1) :
                  GetCoin(CoinDB, <<h, i>>) =
                      <<[Amount |-> TxOutputs(h)[i + 1].Amount,
                         LockingScript |-> TxOutputs(h)[i + 1].LockingScript,
                         IsSpent |-> FALSE]>>

\* a block of two transactions was stored, and the flush made while its
\* outputs were inserted has evicted one of them from the cache
C27_Witness ==
    /\ lastOp.op = "StoreBlock"
    /\ ~panicked
    /\ MainCacheCapacity >= 1
    /\ Len(lastOp.blocks[1]) = 2
    /\ flushPoints(storeInputs(lastOp.pre, lastOp.blocks[1], 1, 1), lastOp.blocks[1], 1, 0) # {}
    /\ \E l \in OutputLocators(lastOp.blocks[1]) : l \notin DOMAIN MainCache
    /\ \E l \in OutputLocators(lastOp.blocks[1]) : l \in DOMAIN MainCache

\* two inputs of the block reference the same locator
SpendsTwice(transactions) ==
    \E j1, j2 \in 1..Len(blockInputs(transactions, 1)) :
        /\ j1 # j2
        /\ makeCoinLocator(blockInputs(transactions, 1)[j1])
             = makeCoinLocator(blockInputs(transactions, 1)[j2])

\* C28 (as claimed): no output is consumed twice inside one accepted block;
\* ValidateBlock rejects every block in which two inputs reference the same
\* locator.
C28_NoDoubleSpendInBlock ==
    ~panicked =>
        \A transactions \in Blocks :
            SpendsTwice(transactions) => ~ValidateBlock(CoinDB, transactions)

(***************************************************************************)
(* ChainWriter.  Offsets and lengths are counted in blocks of 2^28 bytes,   *)
(* so that the uint32 cursors wrap at Uint32Range = 2^32 / 2^28 blocks; a   *)
(* MaxFileSize of m blocks stands for any configured size from m * 2^28 to  *)
(* (m + 1) * 2^28 - 1 bytes.                                                *)
(***************************************************************************)
Uint32Range == 16

\* most writes to the two streams in one run
MaxWrites == 4

\* the configured MaxBlockFileSize / MaxUndoFileSize explored: a quarter of
\* the uint32 range, and the largest uint32 value
FileSizeLimits == {Uint32Range \div 4, Uint32Range - 1}

\* serialized lengths of the records written
RecordLens == {1, 3, 7, 12}
\* most calls of chainwriter.New over a written data directory in one run
MaxRestarts == 1

Add32(a, b) == (a + b) % Uint32Range

Sub32(a, b) == (a - b + Uint32Range) % Uint32Range

\* fmt.Sprintf("%s/%s_%d%s", DataDirectory, name, number, FileExtension)
fileNameOf(name, number) == <<name, number>>

\* the bytes of the n-th record written: each one is told apart
Payload(n, len) == [k \in 1..len |-> <<n, k>>]

\* writeToDisk appends the bytes to the named file, creating it if missing
writeToDisk(fs, fileName, bytes) ==
    (fileName :> ((IF fileName \in DOMAIN fs THEN fs[fileName] ELSE <<>>) \o bytes)) @@ fs

\* writeToDisk when the append fails: the error is logged, the file is as it
\* was, and the call returns to WriteBlock / WriteUndoBlock
writeToDiskFails(fs, fileName, bytes) == fs

\* readFromDisk reads EndOffset - StartOffset bytes from StartOffset on
readFromDisk(fs, fi) ==
    IF fi.FileName \notin DOMAIN fs THEN <<>>
    ELSE LET content == fs[fi.FileName]
             n == Sub32(fi.EndOffset, fi.StartOffset)
             last == IF fi.StartOffset + n > Len(content) THEN Len(content)
                     ELSE fi.StartOffset + n
         IN SubSeq(content, fi.StartOffset + 1, last)

\* the rotation test of WriteBlock / WriteUndoBlock
mustRotate(offset, len, maxFileSize) == Add32(offset, len) > maxFileSize

\* WriteBlock / WriteUndoBlock over the cursors of one stream:
\* the cursors after the rotation decision, the FileInfo, the cursor after
writeRecord(name, fileNumber, offset, maxFileSize, len) ==
    LET rotate == mustRotate(offset, len, maxFileSize)
        number == IF rotate THEN Add32(fileNumber, 1) ELSE fileNumber
        start  == IF rotate THEN 0 ELSE offset
    IN [FileNumber |-> number,
        Offset     |-> Add32(start, len),
        fileInfo   |-> [FileName    |-> fileNameOf(name, number),
                        StartOffset |-> start,
                        EndOffset   |-> Add32(start, len)]]

\* what one WriteBlock / WriteUndoBlock did: the cursor it found, the length
\* it was given, the FileInfo it returned, the cursor it left, and whether
\* the append reached the file
Written(stream, fileNumber, offset, maxFileSize, len, w, ok) ==
    [stream |-> stream, len |-> len, ok |-> ok, maxFileSize |-> maxFileSize,
     numberBefore |-> fileNumber, offsetBefore |-> offset,
     fileInfo |-> w.fileInfo,
     numberAfter |-> w.FileNumber, offsetAfter |-> w.Offset]

WriteBlock(len) ==
    LET w == writeRecord("block", CurrentBlockFileNumber, CurrentBlockOffset,
                         MaxBlockFileSize, len)
        bytes == Payload(nWrites + 1, len)
    IN /\ CurrentBlockFileNumber' = w.FileNumber
       /\ CurrentBlockOffset' = w.Offset
       /\ files' = writeToDisk(files, w.fileInfo.FileName, bytes)
       /\ returned' = returned \cup {[fileInfo |-> w.fileInfo, bytes |-> bytes]}
       /\ nWrites' = nWrites + 1
       /\ lastCall' = [op |-> "WriteBlock",
                       writes |-> <<Written("block", CurrentBlockFileNumber, CurrentBlockOffset,
                                            MaxBlockFileSize, len, w, TRUE)>>]
       /\ UNCHANGED <<CurrentUndoFileNumber, CurrentUndoOffset,
                      MaxBlockFileSize, MaxUndoFileSize, restarts>>

WriteUndoBlock(len) ==
    LET w == writeRecord("undo", CurrentUndoFileNumber, CurrentUndoOffset,
                         MaxUndoFileSize, len)
        bytes == Payload(nWrites + 1, len)
    IN /\ CurrentUndoFileNumber' = w.FileNumber
       /\ CurrentUndoOffset' = w.Offset
       /\ files' = writeToDisk(files, w.fileInfo.FileName, bytes)
       /\ returned' = returned \cup {[fileInfo |-> w.fileInfo, bytes |-> bytes]}
       /\ nWrites' = nWrites + 1
       /\ lastCall' = [op |-> "WriteUndoBlock",
                       writes |-> <<Written("undo", CurrentUndoFileNumber, CurrentUndoOffset,
                                            MaxUndoFileSize, len, w, TRUE)>>]
       /\ UNCHANGED <<CurrentBlockFileNumber, CurrentBlockOffset,
                      MaxBlockFileSize, MaxUndoFileSize, restarts>>

\* WriteBlock / WriteUndoBlock when the append inside writeToDisk fails: the
\* statements after the call are the same, there is no branch on the outcome
WriteBlockAppendFails(len) ==
    LET w == writeRecord("block", CurrentBlockFileNumber, CurrentBlockOffset,
                         MaxBlockFileSize, len)
        bytes == Payload(nWrites + 1, len)
    IN /\ CurrentBlockFileNumber' = w.FileNumber
       /\ CurrentBlockOffset' = w.Offset
       /\ files' = writeToDiskFails(files, w.fileInfo.FileName, bytes)
       /\ nWrites' = nWrites + 1
       /\ lastCall' = [op |-> "WriteBlock",
                       writes |-> <<Written("block", CurrentBlockFileNumber, CurrentBlockOffset,
                                            MaxBlockFileSize, len, w, FALSE)>>]
       /\ UNCHANGED <<CurrentUndoFileNumber, CurrentUndoOffset,
                      MaxBlockFileSize, MaxUndoFileSize, returned, restarts>>

WriteUndoBlockAppendFails(len) ==
    LET w == writeRecord("undo", CurrentUndoFileNumber, CurrentUndoOffset,
                         MaxUndoFileSize, len)
        bytes == Payload(nWrites + 1, len)
    IN /\ CurrentUndoFileNumber' = w.FileNumber
       /\ CurrentUndoOffset' = w.Offset
       /\ files' = writeToDiskFails(files, w.fileInfo.FileName, bytes)
       /\ nWrites' = nWrites + 1
       /\ lastCall' = [op |-> "WriteUndoBlock",
                       writes |-> <<Written("undo", CurrentUndoFileNumber, CurrentUndoOffset,
                                            MaxUndoFileSize, len, w, FALSE)>>]
       /\ UNCHANGED <<CurrentBlockFileNumber, CurrentBlockOffset,
                      MaxBlockFileSize, MaxUndoFileSize, returned, restarts>>

\* ufi := &FileInfo{}: the empty file name (<<>> here) and zero offsets
EmptyFileInfo == [FileName |-> <<>>, StartOffset |-> 0, EndOffset |-> 0]

\* the file fields of the BlockRecord that StoreBlock returns
BlockRecordOf(bfi, ufi) ==
    [BlockFile |-> bfi.FileName,
     BlockStartOffset |-> bfi.StartOffset,
     BlockEndOffset |-> bfi.EndOffset,
     UndoFile |-> ufi.FileName,
     UndoStartOffset |-> ufi.StartOffset,
     UndoEndOffset |-> ufi.EndOffset]

\* ChainWriter.StoreBlock: WriteBlock, then WriteUndoBlock unless the undo
\* block's Amounts is nil
CWStoreBlock(blockLen, undoLen, amountsIsNil) ==
    LET wb == writeRecord("block", CurrentBlockFileNumber, CurrentBlockOffset,
                          MaxBlockFileSize, blockLen)
        wu == writeRecord("undo", CurrentUndoFileNumber, CurrentUndoOffset,
                          MaxUndoFileSize, undoLen)
        blockBytes == Payload(nWrites + 1, blockLen)
        undoBytes  == Payload(nWrites + 2, undoLen)
        fs1 == writeToDisk(files, wb.fileInfo.FileName, blockBytes)
        blockWritten == Written("block", CurrentBlockFileNumber, CurrentBlockOffset,
                                MaxBlockFileSize, blockLen, wb, TRUE)
        undoWritten  == Written("undo", CurrentUndoFileNumber, CurrentUndoOffset,
                                MaxUndoFileSize, undoLen, wu, TRUE)
        call(writes, ufi) ==
            [op |-> "StoreBlock", writes |-> writes,
             amountsIsNil |-> amountsIsNil, undoLen |-> undoLen,
             undoNumberBefore |-> CurrentUndoFileNumber,
             undoOffsetBefore |-> CurrentUndoOffset,
             record |-> BlockRecordOf(wb.fileInfo, ufi)]
    IN /\ CurrentBlockFileNumber' = wb.FileNumber
       /\ CurrentBlockOffset' = wb.Offset
       /\ IF amountsIsNil
          THEN /\ files' = fs1
               /\ returned' = returned \cup {[fileInfo |-> wb.fileInfo, bytes |-> blockBytes]}
               /\ lastCall' = call(<<blockWritten>>, EmptyFileInfo)
               /\ UNCHANGED <<CurrentUndoFileNumber, CurrentUndoOffset>>
          ELSE /\ CurrentUndoFileNumber' = wu.FileNumber
               /\ CurrentUndoOffset' = wu.Offset
               /\ files' = writeToDisk(fs1, wu.fileInfo.FileName, undoBytes)
               /\ returned' = returned \cup {[fileInfo |-> wb.fileInfo, bytes |-> blockBytes],
                                             [fileInfo |-> wu.fileInfo, bytes |-> undoBytes]}
               /\ lastCall' = call(<<blockWritten, undoWritten>>, wu.fileInfo)
       /\ nWrites' = nWrites + 2
       /\ UNCHANGED <<MaxBlockFileSize, MaxUndoFileSize, restarts>>

DoWriteBlock ==
    \E len \in RecordLens :
        /\ nWrites < MaxWrites
        /\ WriteBlock(len)
        /\ UNCHANGED <<coinVars, biVars, walletVars, swapVars, minerVars, lnVars>>

DoWriteUndoBlock ==
    \E len \in RecordLens :
        /\ nWrites < MaxWrites
        /\ WriteUndoBlock(len)
        /\ UNCHANGED <<coinVars, biVars, walletVars, swapVars, minerVars, lnVars>>

\* The undo block comes from the caller: its Amounts is nil, or an empty
\* list that is not nil, or lists the amounts of the consumed outputs.  An
\* undo block with empty lists serializes to no bytes at all.
DoCWStoreBlock ==
    \E blockLen \in RecordLens, undoLen \in RecordLens \cup {0}, amountsIsNil \in BOOLEAN :
        /\ nWrites + 1 < MaxWrites
        /\ amountsIsNil => undoLen = 0
        /\ CWStoreBlock(blockLen, undoLen, amountsIsNil)
        /\ UNCHANGED <<coinVars, biVars, walletVars, swapVars, minerVars, lnVars>>

InitCW ==
    /\ CoinInitValues(0)
    /\ \E maxBlockFileSize \in FileSizeLimits, maxUndoFileSize \in FileSizeLimits :
          CWInitValues(maxBlockFileSize, maxUndoFileSize)
    /\ BIInitValues
    /\ WalletInitValues(0)
    /\ SwapInitValues
    /\ MinerInitValues(0)
    /\ LnInitValues

NextCW ==
    \/ DoWriteBlock
    \/ DoWriteUndoBlock
    \/ DoCWStoreBlock

SpecCW == InitCW /\ [][NextCW]_vars

\* the same ChainWriter on a disk whose appends can fail
DoWriteBlockAppendFails ==
    \E len \in RecordLens :
        /\ nWrites < MaxWrites
        /\ WriteBlockAppendFails(len)
        /\ UNCHANGED <<coinVars, biVars, walletVars, swapVars, minerVars, lnVars>>

DoWriteUndoBlockAppendFails ==
    \E len \in RecordLens :
        /\ nWrites < MaxWrites
        /\ WriteUndoBlockAppendFails(len)
        /\ UNCHANGED <<coinVars, biVars, walletVars, swapVars, minerVars, lnVars>>

NextCWFailing ==
    \/ DoWriteBlock
    \/ DoWriteUndoBlock
    \/ DoWriteBlockAppendFails
    \/ DoWriteUndoBlockAppendFails

SpecCWFailing == InitCW /\ [][NextCWFailing]_vars

\* chainwriter.New called again with the same Config, over the data directory
\* the earlier ChainWriter has written: the four cursors are set to 0, the
\* files stay as they are
Restart ==
    /\ CurrentBlockFileNumber' = 0
    /\ CurrentBlockOffset' = 0
    /\ CurrentUndoFileNumber' = 0
    /\ CurrentUndoOffset' = 0
    /\ lastCall' = NoCall
    /\ restarts' = restarts + 1
    /\ UNCHANGED <<MaxBlockFileSize, MaxUndoFileSize, files, returned, nWrites>>

DoRestart ==
    /\ restarts < MaxRestarts
    /\ files # <<>>
    /\ Restart
    /\ UNCHANGED <<coinVars, biVars, walletVars, swapVars, minerVars, lnVars>>

NextCWRestart ==
    \/ DoWriteBlock
    \/ DoWriteUndoBlock
    \/ DoRestart

SpecCWRestart == InitCW /\ [][NextCWRestart]_vars

(***************************************************************************)
(* Claims about the ChainWriter.                                           *)
(***************************************************************************)

\* C3 (as claimed): from an empty data directory, after any sequence of
\* StoreBlock / WriteBlock / WriteUndoBlock calls, reading [start, end) of
\* the file named in any returned FileInfo yields exactly the bytes passed to
\* the write that returned it.
C3_ReadBackWhatWasWritten ==
    \A r \in returned : readFromDisk(files, r.fileInfo) = r.bytes

\* C15 (as claimed): every WriteBlock / WriteUndoBlock rotates exactly when
\* current-offset + length > max-file-size, returns {file of the resulting
\* file number, start = the offset after the rotation decision, end = start
\* + length} and leaves the cursor at end.
C15_RotatesExactlyWhenFull ==
    \A k \in 1..Len(lastCall.writes) :
        LET w == lastCall.writes[k]
            rotate == w.offsetBefore + w.len > w.maxFileSize
            number == IF rotate THEN w.numberBefore + 1 ELSE w.numberBefore
            start  == IF rotate THEN 0 ELSE w.offsetBefore
        IN /\ w.numberAfter = number
           /\ w.fileInfo = [FileName |-> fileNameOf(w.stream, number),
                            StartOffset |-> start,
                            EndOffset |-> start + w.len]
           /\ w.offsetAfter = start + w.len

\* the configured max-file-size of the stream a file belongs to
MaxFileSizeOf(fileName) ==
    IF fileName[1] = "block" THEN MaxBlockFileSize ELSE MaxUndoFileSize

\* C16 (as claimed): the bytes of a record are in the one file its location
\* names, and a record longer than max-file-size starts at offset 0 of a file
\* that holds no other record.
C16_OversizedRecordAlone ==
    \A r \in returned :
        /\ \A f \in DOMAIN files :
              (\E i \in 1..Len(files[f]) : \E k \in 1..Len(r.bytes) : files[f][i] = r.bytes[k])
                  => f = r.fileInfo.FileName
        /\ Len(r.bytes) > MaxFileSizeOf(r.fileInfo.FileName) =>
              /\ r.fileInfo.StartOffset = 0
              /\ \A r2 \in returned \ {r} : r2.fileInfo.FileName # r.fileInfo.FileName

\* C17 (as claimed): across every write the cursor of the stream moves
\* forward: the file number is unchanged and the offset does not decrease,
\* or the file number grows by exactly one and the record starts at offset 0.
C17_CursorMovesForward ==
    \A k \in 1..Len(lastCall.writes) :
        LET w == lastCall.writes[k] IN
        \/ w.numberAfter = w.numberBefore /\ w.offsetAfter >= w.offsetBefore
        \/ /\ w.numberAfter = w.numberBefore + 1
           /\ w.fileInfo.StartOffset = 0
           /\ w.offsetAfter = w.len

\* C18 (as claimed): StoreBlock with an undo block whose amounts list is
\* empty returns a BlockRecord with an empty undo file name and zero undo
\* offsets and leaves the undo cursor as it was; with a non-empty amounts
\* list the undo record is written and its location returned.
C18_EmptyUndoSkipsWrite ==
    lastCall.op = "StoreBlock" =>
        IF lastCall.undoLen = 0
        THEN /\ lastCall.record.UndoFile = <<>>
             /\ lastCall.record.UndoStartOffset = 0
             /\ lastCall.record.UndoEndOffset = 0
             /\ CurrentUndoFileNumber = lastCall.undoNumberBefore
             /\ CurrentUndoOffset = lastCall.undoOffsetBefore
        ELSE /\ Len(lastCall.writes) = 2
             /\ lastCall.record.UndoFile = lastCall.writes[2].fileInfo.FileName
             /\ lastCall.record.UndoStartOffset = lastCall.writes[2].fileInfo.StartOffset
             /\ lastCall.record.UndoEndOffset = lastCall.writes[2].fileInfo.EndOffset
             /\ \E r \in returned : r.fileInfo = lastCall.writes[2].fileInfo

\* C19 (as claimed): when the append of a record fails, WriteBlock /
\* WriteUndoBlock leaves the stream's current-offset where it was.
C19_FailedAppendKeepsCursor ==
    \A k \in 1..Len(lastCall.writes) :
        LET w == lastCall.writes[k] IN
        ~w.ok => (w.offsetAfter = w.offsetBefore /\ w.numberAfter = w.numberBefore)

(***************************************************************************)
(* BlockInfoDatabase: BlockRecords in a leveldb, keyed by block hash.      *)
(***************************************************************************)
\* most StoreBlockRecord calls in one run
MaxPuts == 3

BlockHashes == {"h1", "h2"}

\* a BlockRecord of a block at the given height, stored by the ChainWriter
\* at the given offsets of block file 0, without or with an undo record
RecordAt(height, start, end, withUndo) ==
    [Header |-> height, Height |-> height, NumberOfTransactions |-> 1,
     BlockFile |-> fileNameOf("block", 0),
     BlockStartOffset |-> start, BlockEndOffset |-> end,
     UndoFile |-> IF withUndo THEN fileNameOf("undo", 0) ELSE EmptyFileInfo.FileName,
     UndoStartOffset |-> 0,
     UndoEndOffset |-> IF withUndo THEN 1 ELSE 0]

BlockRecords == {RecordAt(0, 0, 3, FALSE), RecordAt(1, 3, 6, TRUE), RecordAt(2, 6, 7, TRUE)}

\* proto.Marshal(EncodeBlockRecord(blockRecord)): the fields in field order
Serialize(blockRecord) ==
    <<blockRecord.Header, blockRecord.Height, blockRecord.NumberOfTransactions,
      blockRecord.BlockFile, blockRecord.BlockStartOffset, blockRecord.BlockEndOffset,
      blockRecord.UndoFile, blockRecord.UndoStartOffset, blockRecord.UndoEndOffset>>

\* DecodeBlockRecord after proto.Unmarshal; <<>> when Unmarshal fails
Deserialize(value) ==
    IF Len(value) # 9 THEN <<>>
    ELSE <<[Header |-> value[1], Height |-> value[2], NumberOfTransactions |-> value[3],
            BlockFile |-> value[4], BlockStartOffset |-> value[5], BlockEndOffset |-> value[6],
            UndoFile |-> value[7], UndoStartOffset |-> value[8], UndoEndOffset |-> value[9]]>>

\* what proto.Marshal and db.Put can do
PutOutcomes == {"ok", "marshalError", "putError"}

\* StoreBlockRecord that does not replace a record already under the hash
StoreBlockRecord_keepFirst(d, hash, blockRecord, outcome) ==
    IF outcome = "marshalError" THEN [db |-> d, err |-> "marshalError"]
    ELSE IF outcome = "putError" THEN [db |-> d, err |-> "putError"]
    ELSE [db |-> d @@ (hash :> Serialize(blockRecord)), err |-> "nil"]

\* StoreBlockRecord: the store after the call and the error returned
StoreBlockRecord(d, hash, blockRecord, outcome) ==
    IF outcome = "marshalError" THEN [db |-> d, err |-> "marshalError"]
    ELSE IF outcome = "putError" THEN [db |-> d, err |-> "putError"]
    ELSE [db |-> (hash :> Serialize(blockRecord)) @@ d, err |-> "nil"]

\* GetBlockRecord: <<record>>, or <<>> for the nil pointer
GetBlockRecord(d, hash) ==
    IF hash \notin DOMAIN d THEN <<>>
    ELSE Deserialize(d[hash])

DoStoreBlockRecord ==
    \E hash \in BlockHashes, blockRecord \in BlockRecords, outcome \in PutOutcomes :
        LET s == StoreBlockRecord(blockInfoDB, hash, blockRecord, outcome) IN
        /\ nPuts < MaxPuts
        /\ blockInfoDB' = s.db
        /\ putLog' = IF s.err = "nil"
                     THEN Append(putLog, [hash |-> hash, record |-> blockRecord])
                     ELSE putLog
        /\ lastInfoCall' = [op |-> "StoreBlockRecord", hash |-> hash,
                            outcome |-> outcome, err |-> s.err]
        /\ nPuts' = nPuts + 1
        /\ UNCHANGED <<coinVars, cwVars, walletVars, swapVars, minerVars, lnVars>>

DoGetBlockRecord ==
    \E hash \in BlockHashes :
        /\ lastInfoCall' = [op |-> "GetBlockRecord", hash |-> hash,
                            result |-> GetBlockRecord(blockInfoDB, hash)]
        /\ UNCHANGED <<blockInfoDB, putLog, nPuts>>
        /\ UNCHANGED <<coinVars, cwVars, walletVars, swapVars, minerVars, lnVars>>

InitBI ==
    /\ CoinInitValues(0)
    /\ CWInitValues(0, 0)
    /\ BIInitValues
    /\ WalletInitValues(0)
    /\ SwapInitValues
    /\ MinerInitValues(0)
    /\ LnInitValues

NextBI ==
    \/ DoStoreBlockRecord
    \/ DoGetBlockRecord

SpecBI == InitBI /\ [][NextBI]_vars

\* the positions of the log that stored under the hash
PutsOf(hash) == {i \in 1..Len(putLog) : putLog[i].hash = hash}

\* the record most recently stored under the hash: <<record>>, or <<>>
MostRecent(hash) ==
    IF PutsOf(hash) = {} THEN <<>>
    ELSE <<putLog[CHOOSE i \in PutsOf(hash) : \A j \in PutsOf(hash) : j <= i].record>>

\* C20: GetBlockRecord(hash) returns the record most recently stored under
\* the hash by a StoreBlockRecord that succeeded, and nil for a hash never
\* stored; a StoreBlockRecord whose Put fails returns the store's error, and
\* one that succeeds returns nil.
C20_LastWriteWins ==
    /\ \A hash \in BlockHashes : GetBlockRecord(blockInfoDB, hash) = MostRecent(hash)
    /\ lastInfoCall.op = "GetBlockRecord" => lastInfoCall.result = MostRecent(lastInfoCall.hash)
    /\ lastInfoCall.op = "StoreBlockRecord" =>
          /\ lastInfoCall.outcome = "putError" => lastInfoCall.err = "putError"
          /\ lastInfoCall.outcome = "ok" => lastInfoCall.err = "nil"

\* C20 witness: GetBlockRecord returned the second of two different records
\* stored under one hash, while the other hash was never stored.
C20_Witness ==
    /\ lastInfoCall.op = "GetBlockRecord"
    /\ Cardinality(PutsOf(lastInfoCall.hash)) >= 2
    /\ \E i, j \in PutsOf(lastInfoCall.hash) : putLog[i].record # putLog[j].record
    /\ lastInfoCall.result # <<>>
    /\ \E hash \in BlockHashes : PutsOf(hash) = {} /\ GetBlockRecord(blockInfoDB, hash) = <<>>

(***************************************************************************)
(* Claims about a ChainWriter created over a written data directory.       *)
(***************************************************************************)

\* no returned FileInfo has gone through a wrap-around of the uint32 cursor
NoWrapReturned ==
    \A r \in returned :
        /\ r.fileInfo.StartOffset <= r.fileInfo.EndOffset
        /\ r.fileInfo.EndOffset - r.fileInfo.StartOffset = Len(r.bytes)

\* C29 (as claimed): when a new ChainWriter is created over a data directory
\* that already contains segment files written by an earlier ChainWriter,
\* every FileInfo returned by the new writer and every FileInfo returned by
\* the earlier writer reads back exactly the bytes given to its write.
\* Stated for runs in which no cursor has wrapped around.
C29_ReadBackAcrossRestart ==
    (restarts > 0 /\ NoWrapReturned) =>
        \A r \in returned : readFromDisk(files, r.fileInfo) = r.bytes

(***************************************************************************)
(* Wallet.  Amounts and the Balance are counted in units of 2^28, so that   *)
(* the uint32 Balance wraps at Uint32Range units.  A CoinInfo is told apart *)
(* by the output it describes; a transaction hash is the content of the     *)
(* transaction.                                                             *)
(***************************************************************************)
\* most Wallet calls in one run
MaxWalletOps == 4
\* Config.SafeBlockAmount
SafeBlockAmounts == {2, 3}
\* amounts and fees asked of RequestTransaction, in units of 2^28: small
\* ones, and an amount near the top of the uint32 range
RequestAmounts == {1, 3, Uint32Range - 1}
RequestFees == {0, 1, 2}
\* w.Id.GetPublicKeyString(), and the public key of somebody else
OwnPublicKey == "wallet"
OtherPublicKey == "other"

\* tx.Hash(): a content hash, collision-free
Hash(tx) == tx

\* transactions of other nodes that pay the wallet
PaysWallet(amount) ==
    [Inputs |-> <<>>, Outputs |-> <<[Amount |-> amount, LockingScript |-> OwnPublicKey]>>]

Payments == {PaysWallet(1), PaysWallet(3)}

\* the transaction by which the receiver of tx spends its first output
SpenderOf(tx) ==
    [Inputs  |-> <<[ReferenceTransactionHash |-> Hash(tx), OutputIndex |-> 0]>>,
     Outputs |-> <<[Amount |-> tx.Outputs[1].Amount, LockingScript |-> OtherPublicKey]>>]

\* the Wallet as one value
WalletOf ==
    [Balance |-> Balance, CoinCollection |-> CoinCollection,
     UnseenSpentCoins |-> UnseenSpentCoins,
     UnconfirmedSpentCoins |-> UnconfirmedSpentCoins,
     UnconfirmedReceivedCoins |-> UnconfirmedReceivedCoins,
     SafeBlockAmount |-> SafeBlockAmount,
     decreases |-> <<>>]

\* the orders in which a range over a map with these keys can visit them
Orders(keys) ==
    {o \in [1..Cardinality(keys) -> keys] : \A i, j \in 1..Cardinality(keys) : o[i] = o[j] => i = j}

\* the loop of generateTransactionInputs over CoinCollection, visited in order
RECURSIVE pickCoins(_, _, _, _, _)
pickCoins(w, order, k, total, acc) ==
    IF k > Len(order) THEN acc
    ELSE LET info == order[k] IN
         IF info.ReferenceTransactionHash \in DOMAIN w.UnseenSpentCoins
         THEN pickCoins(w, order, k + 1, total, acc)
         ELSE IF acc.input >= total THEN acc
         ELSE pickCoins(w, order, k + 1, total,
                        [input |-> Add32(acc.input, info.TransactionOutput.Amount),
                         ci_slice |-> Append(acc.ci_slice, info)])

\* all_inputs is nil when the funds do not suffice, and also when no coin
\* was appended; the signature of an input is left out
generateTransactionInputs(w, order, amount, fee) ==
    LET total == Add32(amount, fee)
        p == pickCoins(w, order, 1, total, [input |-> 0, ci_slice |-> <<>>])
    IN IF p.input < total
       THEN [diff |-> 0, all_inputs |-> <<>>, ci_slice |-> <<>>, isNil |-> TRUE]
       ELSE [diff |-> Sub32(p.input, total),
             all_inputs |-> [k \in 1..Len(p.ci_slice) |->
                                [ReferenceTransactionHash |-> p.ci_slice[k].ReferenceTransactionHash,
                                 OutputIndex |-> p.ci_slice[k].OutputIndex]],
             ci_slice |-> p.ci_slice,
             isNil |-> p.ci_slice = <<>>]

generateTransactionOutputs(amount, receiverPK, change) ==
    LET trans_out == [Amount |-> amount, LockingScript |-> receiverPK] IN
    IF change > 0
    THEN <<trans_out, [Amount |-> change, LockingScript |-> OwnPublicKey]>>
    ELSE <<trans_out>>

\* one decrease of the Balance, as it was made
Decrease(in, before, amount, after) ==
    [in |-> in, before |-> before, amount |-> amount, after |-> after]

\* RequestTransaction, for one coin used: forget the coin, remember it as
\* spent and unseen under the hash of the new transaction, lower the Balance
spendCoin(w, tx_hash, info) ==
    LET amount == info.TransactionOutput.Amount
        after  == IF w.Balance < amount THEN 0 ELSE Sub32(w.Balance, amount)
        unseen == IF tx_hash \in DOMAIN w.UnseenSpentCoins
                  THEN w.UnseenSpentCoins[tx_hash] ELSE <<>>
    IN [w EXCEPT !.CoinCollection = @ \ {info},
                 !.UnseenSpentCoins = (tx_hash :> Append(unseen, info)) @@ @,
                 !.Balance = after,
                 !.decreases = Append(@, Decrease("RequestTransaction", w.Balance, amount, after))]

RECURSIVE spendCoins(_, _, _, _)
spendCoins(w, tx_hash, ci_slice, k) ==
    IF k > Len(ci_slice) THEN w
    ELSE spendCoins(spendCoin(w, tx_hash, ci_slice[k]), tx_hash, ci_slice, k + 1)

\* the wallet after the call and the transaction returned (<<>> for nil)
RequestTransaction(w, order, amount, fee, recipientPK) ==
    LET g == generateTransactionInputs(w, order, amount, fee) IN
    IF g.isNil THEN [w |-> w, tx |-> <<>>]
    ELSE LET tx == [Inputs |-> g.all_inputs,
                    Outputs |-> generateTransactionOutputs(amount, recipientPK, g.diff)]
         IN [w |-> spendCoins(w, Hash(tx), g.ci_slice, 1), tx |-> <<tx>>]

\* HandleBlock (1): an input that references a key of UnseenSpentCoins
handleInput(w, input) ==
    LET h == input.ReferenceTransactionHash IN
    IF h \in DOMAIN w.UnseenSpentCoins
    THEN LET info == w.UnseenSpentCoins[h] IN
         [w EXCEPT !.UnconfirmedSpentCoins = [ci \in {info[k] : k \in 1..Len(info)} |-> 1] @@ @,
                   !.UnseenSpentCoins = mapDelete(@, h)]
    ELSE w

RECURSIVE handleInputs(_, _, _)
handleInputs(w, tx, k) ==
    IF k > Len(tx.Inputs) THEN w
    ELSE handleInputs(handleInput(w, tx.Inputs[k]), tx, k + 1)

\* HandleBlock (2): an output locked to the wallet's public key
handleOutput(w, tx, idx) ==
    LET output == tx.Outputs[idx + 1] IN
    IF output.LockingScript = OwnPublicKey
    THEN LET coin_info == [ReferenceTransactionHash |-> Hash(tx), OutputIndex |-> idx,
                           TransactionOutput |-> output]
         IN [w EXCEPT !.UnconfirmedReceivedCoins = (coin_info :> 1) @@ @]
    ELSE w

RECURSIVE handleOutputs(_, _, _)
handleOutputs(w, tx, idx) ==
    IF idx >= Len(tx.Outputs) THEN w
    ELSE handleOutputs(handleOutput(w, tx, idx), tx, idx + 1)

RECURSIVE handleTransactions(_, _, _)
handleTransactions(w, txs, t) ==
    IF t > Len(txs) THEN w
    ELSE handleTransactions(handleOutputs(handleInputs(w, txs[t], 1), txs[t], 0), txs, t + 1)

\* HandleBlock (3), spent coins: one more confirmation; at the threshold the
\* coin leaves CoinCollection and the Balance is lowered.  The test
\* w.Balance - amount < 0 is made on uint32 values and is never true.
confirmSpent(w, ci) ==
    LET count  == w.UnconfirmedSpentCoins[ci]
        amount == ci.TransactionOutput.Amount
        after  == Sub32(w.Balance, amount)
    IN IF Add32(count, 1) >= w.SafeBlockAmount
       THEN [w EXCEPT !.CoinCollection = @ \ {ci},
                      !.Balance = after,
                      !.UnconfirmedSpentCoins = mapDelete(@, ci),
                      !.decreases = Append(@, Decrease("HandleBlock", w.Balance, amount, after))]
       ELSE [w EXCEPT !.UnconfirmedSpentCoins[ci] = Add32(count, 1)]

RECURSIVE confirmSpents(_, _, _)
confirmSpents(w, order, k) ==
    IF k > Len(order) THEN w
    ELSE confirmSpents(confirmSpent(w, order[k]), order, k + 1)

\* HandleBlock (3), received coins: at the threshold the coin enters
\* CoinCollection and the Balance is raised.  Additions modulo 2^32 commute,
\* so the order of the range over the map does not matter.
confirmReceived(w, ci) ==
    LET count == w.UnconfirmedReceivedCoins[ci] IN
    IF Add32(count, 1) >= w.SafeBlockAmount
    THEN [w EXCEPT !.CoinCollection = @ \cup {ci},
                   !.Balance = Add32(@, ci.TransactionOutput.Amount),
                   !.UnconfirmedReceivedCoins = mapDelete(@, ci)]
    ELSE [w EXCEPT !.UnconfirmedReceivedCoins[ci] = Add32(count, 1)]

RECURSIVE confirmReceiveds(_, _)
confirmReceiveds(w, todo) ==
    IF todo = {} THEN w
    ELSE LET ci == CHOOSE x \in todo : TRUE
         IN confirmReceiveds(confirmReceived(w, ci), todo \ {ci})

\* HandleBlock up to the range over UnconfirmedSpentCoins
HandleBlockSeen(w, txs) == handleTransactions(w, txs, 1)

\* spentOrder is the order in which the range visits UnconfirmedSpentCoins
HandleBlock(w, txs, spentOrder) ==
    LET w1 == HandleBlockSeen(w, txs)
        w2 == confirmSpents(w1, spentOrder, 1)
    IN confirmReceiveds(w2, DOMAIN w2.UnconfirmedReceivedCoins)

\* the wallet variables take the value w
WalletBecomes(w) ==
    /\ Balance' = w.Balance
    /\ CoinCollection' = w.CoinCollection
    /\ UnseenSpentCoins' = w.UnseenSpentCoins
    /\ UnconfirmedSpentCoins' = w.UnconfirmedSpentCoins
    /\ UnconfirmedReceivedCoins' = w.UnconfirmedReceivedCoins
    /\ SafeBlockAmount' = w.SafeBlockAmount

DoRequestTransaction ==
    \E amount \in RequestAmounts, fee \in RequestFees, order \in Orders(CoinCollection) :
        LET r == RequestTransaction(WalletOf, order, amount, fee, OtherPublicKey) IN
        /\ nWalletOps < MaxWalletOps
        /\ WalletBecomes(r.w)
        /\ TransactionRequests' = TransactionRequests \cup {r.tx[k] : k \in 1..Len(r.tx)}
        /\ lastWalletCall' = [op |-> "RequestTransaction", decreases |-> r.w.decreases,
                              amount |-> amount, fee |-> fee, pk |-> OtherPublicKey,
                              tx |-> r.tx, before |-> WalletOf, after |-> r.w,
                              ci_slice |-> generateTransactionInputs(WalletOf, order, amount, fee).ci_slice]
        /\ nWalletOps' = nWalletOps + 1
        /\ UNCHANGED handled
        /\ UNCHANGED <<coinVars, cwVars, biVars, swapVars, minerVars, lnVars>>

\* the blocks the node hands to the wallet: transactions not yet in a block,
\* a spender after the transaction it spends
WalletBlocks ==
    LET known == Payments \cup TransactionRequests
        cand  == (known \cup {SpenderOf(tx) : tx \in TransactionRequests}) \ handled
        ok(tx, before) == \A r \in TransactionRequests : tx = SpenderOf(r) => r \in before
    IN {<<tx>> : tx \in {x \in cand : ok(x, handled)}}
       \cup UNION {{<<t1, t2>> : t2 \in {x \in cand : ok(x, handled \cup {t1}) /\ x # t1}} :
                     t1 \in {x \in cand : ok(x, handled)}}

DoHandleBlock ==
    \E txs \in WalletBlocks :
        \E spentOrder \in Orders(DOMAIN HandleBlockSeen(WalletOf, txs).UnconfirmedSpentCoins) :
            LET w == HandleBlock(WalletOf, txs, spentOrder) IN
            /\ nWalletOps < MaxWalletOps
            /\ WalletBecomes(w)
            /\ handled' = handled \cup {txs[k] : k \in 1..Len(txs)}
            /\ lastWalletCall' = [op |-> "HandleBlock", decreases |-> w.decreases]
            /\ nWalletOps' = nWalletOps + 1
            /\ UNCHANGED TransactionRequests
            /\ UNCHANGED <<coinVars, cwVars, biVars, swapVars, minerVars, lnVars>>

InitWallet ==
    /\ CoinInitValues(0)
    /\ CWInitValues(0, 0)
    /\ BIInitValues
    /\ \E safeBlockAmount \in SafeBlockAmounts : WalletInitValues(safeBlockAmount)
    /\ SwapInitValues
    /\ MinerInitValues(0)
    /\ LnInitValues

NextWallet ==
    \/ DoRequestTransaction
    \/ DoHandleBlock

SpecWallet == InitWallet /\ [][NextWallet]_vars

(***************************************************************************)
(* Claims about the Wallet.                                                *)
(***************************************************************************)

\* C30 (as claimed): every decrease of the wallet's unsigned 32-bit Balance
\* saturates at 0: in RequestTransaction, and in HandleBlock when a spent
\* coin reaches the confirmation threshold, subtracting an amount larger than
\* the current Balance leaves Balance = 0 and never a wrapped-around value.
C30_BalanceSaturates ==
    \A k \in 1..Len(lastWalletCall.decreases) :
        LET d == lastWalletCall.decreases[k] IN
        d.after = (IF d.before < d.amount THEN 0 ELSE d.before - d.amount)

\* the sum of the amounts of a set of coins, as a number without a width
RECURSIVE AmountOf(_)
AmountOf(coins) ==
    IF coins = {} THEN 0
    ELSE LET ci == CHOOSE x \in coins : TRUE
         IN ci.TransactionOutput.Amount + AmountOf(coins \ {ci})

\* C35 (as claimed): the coins used by a transaction returned from
\* RequestTransaction are in UnseenSpentCoins, under the transaction's hash,
\* as long as HandleBlock has not processed a block containing the
\* transaction, and have left UnseenSpentCoins once it has; a coin in
\* UnconfirmedSpentCoins has fewer than SafeBlockAmount confirmations.
C35_SpendTracking ==
    /\ \A tx \in TransactionRequests :
           IF tx \in handled
           THEN Hash(tx) \notin DOMAIN UnseenSpentCoins
           ELSE Hash(tx) \in DOMAIN UnseenSpentCoins
    /\ \A ci \in DOMAIN UnconfirmedSpentCoins : UnconfirmedSpentCoins[ci] < SafeBlockAmount

\* C36 (as claimed): a transaction returned by RequestTransaction(amount, fee,
\* pk) uses coins whose amounts sum to amount + fee + change, its first
\* output pays amount to pk, and it has a second output, paying change to
\* the wallet's own key, exactly when change > 0; when the coins of the
\* wallet sum to less than amount + fee the call returns nil and leaves the
\* wallet as it was.  Sums are sums of numbers, not of uint32 values.
C36_ValueConserved ==
    lastWalletCall.op = "RequestTransaction" =>
        LET c      == lastWalletCall
            used   == {c.ci_slice[k] : k \in 1..Len(c.ci_slice)}
            change == AmountOf(used) - (c.amount + c.fee)
            pays   == [Amount |-> c.amount, LockingScript |-> c.pk]
        IN /\ c.tx # <<>> =>
                  /\ change >= 0
                  /\ c.tx[1].Outputs =
                         (IF change > 0
                          THEN <<pays, [Amount |-> change, LockingScript |-> OwnPublicKey]>>
                          ELSE <<pays>>)
           /\ AmountOf(c.before.CoinCollection) < c.amount + c.fee =>
                  /\ c.tx = <<>>
                  /\ c.after = c.before

\* C37 (as claimed): the Balance is the sum of the amounts of the coins in
\* CoinCollection (as a uint32 value) in every state reached from a new
\* wallet by RequestTransaction and HandleBlock.
C37_BalanceIsSumOfCoins == Balance = AmountOf(CoinCollection) % Uint32Range

(***************************************************************************)
(* TwoPartySwap.  uint arithmetic is checked (Solidity 0.8): an overflow    *)
(* reverts the transaction; the amounts and times explored stay far below   *)
(* 2^256.  A transaction that reverts leaves the state as it was and is not *)
(* a step.  The ether a payable function receives is not used.              *)
(***************************************************************************)
\* block.timestamp explored up to
MaxTime == 7

\* sha256(abi.encode(preimage))
sha256(preimage) ==
    IF preimage = "p1" THEN "h1" ELSE IF preimage = "p2" THEN "h2" ELSE "hx"

\* the contract's storage and the token as one value
SwapState == [swaps |-> swaps, assets |-> assets, premiums |-> premiums,
              balanceOf |-> balanceOf]

\* what a transaction did: ok = FALSE when a require failed
Reverted(T) == [ok |-> FALSE, T |-> T, amount |-> 0, transferTo |-> ZeroAddress]

\* ERC20.transferFrom / ERC20.transfer: move the tokens or revert
tokenMove(b, from, to, amount) ==
    [a \in DOMAIN b |->
        IF a = from /\ a = to THEN b[a]
        ELSE IF a = from THEN b[a] - amount
        ELSE IF a = to THEN b[a] + amount
        ELSE b[a]]

transferFrom(b, from, to, amount, approved) == approved /\ b[from] >= amount

transfer(b, to, amount) == b[ThisContract] >= amount

\* the modifiers
canSetup(T, hashLock) == T.swaps[hashLock].assetEscrower = ZeroAddress

canEscrowPremium(T, sender, now, hashLock) ==
    /\ now <= T.premiums[hashLock].deadline
    /\ T.swaps[hashLock].premiumEscrower = sender
    /\ T.premiums[hashLock].current < T.premiums[hashLock].expected

\* canEscrowAsset without the require on the premium
canEscrowAsset_noPremium(T, sender, now, hashLock) ==
    /\ T.assets[hashLock].current < T.assets[hashLock].expected
    /\ T.swaps[hashLock].assetEscrower = sender
    /\ now <= T.assets[hashLock].deadline

canEscrowAsset(T, sender, now, hashLock) ==
    /\ T.assets[hashLock].current < T.assets[hashLock].expected
    /\ T.swaps[hashLock].assetEscrower = sender
    /\ now <= T.assets[hashLock].deadline
    /\ T.premiums[hashLock].current >= T.premiums[hashLock].expected

canRedeemAsset(T, sender, now, preimage, hashLock) ==
    /\ T.assets[hashLock].current = T.assets[hashLock].expected
    /\ now <= T.assets[hashLock].deadline
    /\ T.swaps[hashLock].premiumEscrower = sender
    /\ sha256(preimage) = hashLock

canRefundAsset(T, sender, now, hashLock) ==
    /\ T.premiums[hashLock].current = T.premiums[hashLock].expected
    /\ T.assets[hashLock].current = T.assets[hashLock].expected
    /\ now > T.assets[hashLock].deadline

canRefundPremium(T, sender, now, hashLock) ==
    /\ T.assets[hashLock].current < T.assets[hashLock].expected
    /\ now > T.assets[hashLock].timeout
    /\ T.premiums[hashLock].current = T.premiums[hashLock].expected

canRedeemPremium(T, sender, now, hashLock) ==
    /\ T.swaps[hashLock].assetEscrower = sender
    /\ T.premiums[hashLock].current = T.premiums[hashLock].expected
    /\ T.assets[hashLock].expected > 0
    /\ now > T.premiums[hashLock].deadline

\* the deadlines setup computes
assetDeadline(startTime, firstAssetEscrow, delta) ==
    IF firstAssetEscrow THEN startTime + 3 * delta ELSE startTime + 4 * delta

assetTimeout(startTime, firstAssetEscrow, delta) ==
    IF firstAssetEscrow THEN startTime + 6 * delta ELSE startTime + 5 * delta

premiumDeadline(startTime, firstAssetEscrow, delta) ==
    IF firstAssetEscrow THEN startTime + 2 * delta ELSE startTime + 1 * delta

setup(T, a) ==
    IF ~canSetup(T, a.hashLock) THEN Reverted(T)
    ELSE [ok |-> TRUE, amount |-> 0, transferTo |-> ZeroAddress,
          T |-> [T EXCEPT
             !.swaps[a.hashLock] =
                 [assetEscrower |-> a.assetEscrower, premiumEscrower |-> a.premiumEscrower,
                  hashLock |-> a.hashLock, assetAddress |-> a.assetAddress],
             !.assets[a.hashLock] =
                 [expected |-> a.expectedAssetEscrow, current |-> 0,
                  deadline |-> assetDeadline(a.startTime, a.firstAssetEscrow, a.delta),
                  timeout |-> assetTimeout(a.startTime, a.firstAssetEscrow, a.delta)],
             !.premiums[a.hashLock] =
                 [expected |-> a.expectedPremiumEscrow, current |-> 0,
                  deadline |-> premiumDeadline(a.startTime, a.firstAssetEscrow, a.delta)]]]

escrowPremium(T, sender, now, hashLock, approved) ==
    LET escrow_amount == T.premiums[hashLock].expected - T.premiums[hashLock].current IN
    IF ~canEscrowPremium(T, sender, now, hashLock) THEN Reverted(T)
    ELSE IF ~transferFrom(T.balanceOf, sender, ThisContract, escrow_amount, approved)
    THEN Reverted(T)
    ELSE [ok |-> TRUE, amount |-> escrow_amount, transferTo |-> ThisContract,
          T |-> [T EXCEPT
             !.balanceOf = tokenMove(@, sender, ThisContract, escrow_amount),
             !.premiums[hashLock].current = @ + escrow_amount]]

escrowAsset(T, sender, now, hashLock, approved) ==
    LET escrow_amount == T.assets[hashLock].expected - T.assets[hashLock].current IN
    IF ~canEscrowAsset(T, sender, now, hashLock) THEN Reverted(T)
    ELSE IF ~transferFrom(T.balanceOf, sender, ThisContract, escrow_amount, approved)
    THEN Reverted(T)
    ELSE [ok |-> TRUE, amount |-> escrow_amount, transferTo |-> ThisContract,
          T |-> [T EXCEPT
             !.balanceOf = tokenMove(@, sender, ThisContract, escrow_amount),
             !.assets[hashLock].current = @ + escrow_amount]]

\* redeemAsset that leaves assets[hashLock].current as it was
redeemAsset_keepsCurrent(T, sender, now, preimage, hashLock) ==
    LET current_amount == T.assets[hashLock].current
        to == T.swaps[hashLock].premiumEscrower
    IN IF ~canRedeemAsset(T, sender, now, preimage, hashLock) THEN Reverted(T)
       ELSE IF ~transfer(T.balanceOf, to, current_amount) THEN Reverted(T)
       ELSE [ok |-> TRUE, amount |-> current_amount, transferTo |-> to,
             T |-> [T EXCEPT
                !.balanceOf = tokenMove(@, ThisContract, to, current_amount)]]

redeemAsset(T, sender, now, preimage, hashLock) ==
    LET current_amount == T.assets[hashLock].current
        to == T.swaps[hashLock].premiumEscrower
    IN IF ~canRedeemAsset(T, sender, now, preimage, hashLock) THEN Reverted(T)
       ELSE IF ~transfer(T.balanceOf, to, current_amount) THEN Reverted(T)
       ELSE [ok |-> TRUE, amount |-> current_amount, transferTo |-> to,
             T |-> [T EXCEPT
                !.balanceOf = tokenMove(@, ThisContract, to, current_amount),
                !.assets[hashLock].current = 0]]

refundPremium(T, sender, now, hashLock) ==
    LET refund_amount == T.premiums[hashLock].current IN
    IF ~canRefundPremium(T, sender, now, hashLock) THEN Reverted(T)
    ELSE IF ~transfer(T.balanceOf, sender, refund_amount) THEN Reverted(T)
    ELSE [ok |-> TRUE, amount |-> refund_amount, transferTo |-> sender,
          T |-> [T EXCEPT
             !.balanceOf = tokenMove(@, ThisContract, sender, refund_amount),
             !.premiums[hashLock].current = @ - refund_amount]]

refundAsset(T, sender, now, hashLock) ==
    LET refund_amount == T.assets[hashLock].current IN
    IF ~canRefundAsset(T, sender, now, hashLock) THEN Reverted(T)
    ELSE IF ~transfer(T.balanceOf, sender, refund_amount) THEN Reverted(T)
    ELSE [ok |-> TRUE, amount |-> refund_amount, transferTo |-> sender,
          T |-> [T EXCEPT
             !.balanceOf = tokenMove(@, ThisContract, sender, refund_amount),
             !.assets[hashLock].current = 0]]

redeemPremium(T, sender, now, hashLock) ==
    LET redeem_amount == T.premiums[hashLock].current
        to == T.swaps[hashLock].assetEscrower
    IN IF ~canRedeemPremium(T, sender, now, hashLock) THEN Reverted(T)
       ELSE IF ~transfer(T.balanceOf, to, redeem_amount) THEN Reverted(T)
       ELSE [ok |-> TRUE, amount |-> redeem_amount, transferTo |-> to,
             T |-> [T EXCEPT
                !.balanceOf = tokenMove(@, ThisContract, to, redeem_amount),
                !.premiums[hashLock].current = 0]]

\* the arguments given to setup
SetupArgs ==
    [expectedAssetEscrow : {0, InitialTokens}, expectedPremiumEscrow : {0, 1},
     assetEscrower : {"alice"}, premiumEscrower : {"bob"},
     assetAddress : {"token"}, hashLock : HashLocks, startTime : {0, 1},
     firstAssetEscrow : BOOLEAN, delta : {0, 1}]

\* the storage and the token take the value T
SwapBecomes(T) ==
    /\ swaps' = T.swaps
    /\ assets' = T.assets
    /\ premiums' = T.premiums
    /\ balanceOf' = T.balanceOf

\* the transaction as it was mined, with the swap as it found it
SwapCall(op, sender, hashLock, r) ==
    [op |-> op, ok |-> r.ok, sender |-> sender, hashLock |-> hashLock,
     amount |-> r.amount, transferTo |-> r.transferTo, at |-> timestamp,
     swap |-> swaps[hashLock], asset |-> assets[hashLock], premium |-> premiums[hashLock]]

\* setup reads neither msg.sender nor msg.value: one caller stands for all
DoSetup ==
    \E sender \in {"eve"}, a \in SetupArgs :
        LET r == setup(SwapState, a) IN
        /\ r.ok
        /\ SwapBecomes(r.T)
        /\ ledger' = [ledger EXCEPT ![a.hashLock].delta = a.delta]
        /\ lastSwapCall' = SwapCall("setup", sender, a.hashLock, r)
        /\ UNCHANGED timestamp
        /\ UNCHANGED <<coinVars, cwVars, biVars, walletVars, minerVars, lnVars>>

DoEscrowPremium ==
    \E sender \in Accounts, hashLock \in HashLocks, approved \in BOOLEAN :
        LET r == escrowPremium(SwapState, sender, timestamp, hashLock, approved) IN
        /\ r.ok
        /\ SwapBecomes(r.T)
        /\ ledger' = [ledger EXCEPT ![hashLock].premiumIn = @ + r.amount]
        /\ lastSwapCall' = SwapCall("escrowPremium", sender, hashLock, r)
        /\ UNCHANGED timestamp
        /\ UNCHANGED <<coinVars, cwVars, biVars, walletVars, minerVars, lnVars>>

DoEscrowAsset ==
    \E sender \in Accounts, hashLock \in HashLocks, approved \in BOOLEAN :
        LET r == escrowAsset(SwapState, sender, timestamp, hashLock, approved) IN
        /\ r.ok
        /\ SwapBecomes(r.T)
        /\ ledger' = [ledger EXCEPT ![hashLock].assetIn = @ + r.amount]
        /\ lastSwapCall' = SwapCall("escrowAsset", sender, hashLock, r)
        /\ UNCHANGED timestamp
        /\ UNCHANGED <<coinVars, cwVars, biVars, walletVars, minerVars, lnVars>>

DoRedeemAsset ==
    \E sender \in Accounts, hashLock \in HashLocks, preimage \in Preimages :
        LET r == redeemAsset(SwapState, sender, timestamp, preimage, hashLock) IN
        /\ r.ok
        /\ SwapBecomes(r.T)
        /\ ledger' = [ledger EXCEPT ![hashLock].assetOut = @ + r.amount,
                                    ![hashLock].assetRedeemed = TRUE]
        /\ lastSwapCall' = SwapCall("redeemAsset", sender, hashLock, r)
        /\ UNCHANGED timestamp
        /\ UNCHANGED <<coinVars, cwVars, biVars, walletVars, minerVars, lnVars>>

DoRefundPremium ==
    \E sender \in Accounts, hashLock \in HashLocks :
        LET r == refundPremium(SwapState, sender, timestamp, hashLock) IN
        /\ r.ok
        /\ SwapBecomes(r.T)
        /\ ledger' = [ledger EXCEPT ![hashLock].premiumOut = @ + r.amount]
        /\ lastSwapCall' = SwapCall("refundPremium", sender, hashLock, r)
        /\ UNCHANGED timestamp
        /\ UNCHANGED <<coinVars, cwVars, biVars, walletVars, minerVars, lnVars>>

DoRefundAsset ==
    \E sender \in Accounts, hashLock \in HashLocks :
        LET r == refundAsset(SwapState, sender, timestamp, hashLock) IN
        /\ r.ok
        /\ SwapBecomes(r.T)
        /\ ledger' = [ledger EXCEPT ![hashLock].assetOut = @ + r.amount]
        /\ lastSwapCall' = SwapCall("refundAsset", sender, hashLock, r)
        /\ UNCHANGED timestamp
        /\ UNCHANGED <<coinVars, cwVars, biVars, walletVars, minerVars, lnVars>>

DoRedeemPremium ==
    \E sender \in Accounts, hashLock \in HashLocks :
        LET r == redeemPremium(SwapState, sender, timestamp, hashLock) IN
        /\ r.ok
        /\ SwapBecomes(r.T)
        /\ ledger' = [ledger EXCEPT ![hashLock].premiumOut = @ + r.amount]
        /\ lastSwapCall' = SwapCall("redeemPremium", sender, hashLock, r)
        /\ UNCHANGED timestamp
        /\ UNCHANGED <<coinVars, cwVars, biVars, walletVars, minerVars, lnVars>>

\* a later block is mined
DoMineBlock ==
    /\ timestamp < MaxTime
    /\ timestamp' = timestamp + 1
    /\ UNCHANGED <<swaps, assets, premiums, balanceOf, ledger, lastSwapCall>>
    /\ UNCHANGED <<coinVars, cwVars, biVars, walletVars, minerVars, lnVars>>

InitSwap ==
    /\ CoinInitValues(0)
    /\ CWInitValues(0, 0)
    /\ BIInitValues
    /\ WalletInitValues(0)
    /\ SwapInitValues
    /\ MinerInitValues(0)
    /\ LnInitValues

NextSwap ==
    \/ DoSetup
    \/ DoEscrowPremium
    \/ DoEscrowAsset
    \/ DoRedeemAsset
    \/ DoRefundPremium
    \/ DoRefundAsset
    \/ DoRedeemPremium
    \/ DoMineBlock

SpecSwap == InitSwap /\ [][NextSwap]_vars

(***************************************************************************)
(* Claims about TwoPartySwap.                                              *)
(***************************************************************************)

\* C31 (as claimed): refunds go only to the party that escrowed the funds: a
\* successful refundAsset transfers the escrowed asset to the swap's
\* assetEscrower and a successful refundPremium transfers the escrowed
\* premium to the swap's premiumEscrower, whoever the caller is.
C31_RefundsGoToEscrower ==
    /\ (lastSwapCall.op = "refundAsset" /\ lastSwapCall.amount > 0) =>
           lastSwapCall.transferTo = lastSwapCall.swap.assetEscrower
    /\ (lastSwapCall.op = "refundPremium" /\ lastSwapCall.amount > 0) =>
           lastSwapCall.transferTo = lastSwapCall.swap.premiumEscrower

\* C32 (as claimed): once redeemAsset has succeeded for a hashLock,
\* redeemPremium no longer succeeds for that hashLock and pays no premium
\* to the assetEscrower.
C32_NoPremiumRedeemAfterAssetRedeem ==
    (lastSwapCall.op = "redeemPremium" /\ lastSwapCall.amount > 0) =>
        ~ledger[lastSwapCall.hashLock].assetRedeemed

\* C33: escrowAsset succeeds only when the premium is fully escrowed
\* (premium.current >= premium.expected, the contract holding it), called by
\* the assetEscrower no later than the asset deadline; escrowPremium succeeds
\* only when called by the premiumEscrower no later than the premium
\* deadline; and the deadlines set by setup satisfy premium deadline < asset
\* deadline < timeout for delta > 0.
C33_EscrowOrdering ==
    /\ lastSwapCall.op = "escrowAsset" =>
          /\ lastSwapCall.premium.current >= lastSwapCall.premium.expected
          /\ ledger[lastSwapCall.hashLock].premiumIn - ledger[lastSwapCall.hashLock].premiumOut
                >= lastSwapCall.premium.expected
          /\ lastSwapCall.sender = lastSwapCall.swap.assetEscrower
          /\ lastSwapCall.at <= lastSwapCall.asset.deadline
    /\ lastSwapCall.op = "escrowPremium" =>
          /\ lastSwapCall.sender = lastSwapCall.swap.premiumEscrower
          /\ lastSwapCall.at <= lastSwapCall.premium.deadline
    /\ \A h \in HashLocks :
          (swaps[h].assetEscrower # ZeroAddress /\ ledger[h].delta > 0) =>
              /\ premiums[h].deadline < assets[h].deadline
              /\ assets[h].deadline < assets[h].timeout

\* the asset was escrowed after a premium that had to be escrowed first
C33_Witness ==
    /\ lastSwapCall.op = "escrowAsset"
    /\ lastSwapCall.amount > 0
    /\ lastSwapCall.premium.expected > 0
    /\ ledger[lastSwapCall.hashLock].delta > 0
    /\ lastSwapCall.at > lastSwapCall.premium.deadline

\* C34: funds are conserved per swap: for every hashLock the tokens paid out
\* never exceed the tokens escrowed, what is escrowed and not yet paid out is
\* the swap's current amount and is held by the contract, and every payout
\* pays the whole current amount and leaves it at 0, so that an escrowed
\* asset or premium is paid out at most once.
C34_FundsConserved ==
    /\ \A h \in HashLocks :
          /\ ledger[h].assetOut <= ledger[h].assetIn
          /\ ledger[h].premiumOut <= ledger[h].premiumIn
          /\ assets[h].current = ledger[h].assetIn - ledger[h].assetOut
          /\ premiums[h].current = ledger[h].premiumIn - ledger[h].premiumOut
          /\ balanceOf[ThisContract] >= assets[h].current + premiums[h].current
    /\ lastSwapCall.op \in {"redeemAsset", "refundAsset"} =>
          /\ lastSwapCall.amount = lastSwapCall.asset.current
          /\ assets[lastSwapCall.hashLock].current = 0
    /\ lastSwapCall.op \in {"redeemPremium", "refundPremium"} =>
          /\ lastSwapCall.amount = lastSwapCall.premium.current
          /\ premiums[lastSwapCall.hashLock].current = 0

\* both the asset and the premium of a swap were escrowed and paid out
C34_Witness ==
    \E h \in HashLocks :
        /\ ledger[h].assetIn > 0
        /\ ledger[h].assetOut = ledger[h].assetIn
        /\ ledger[h].premiumIn > 0
        /\ ledger[h].premiumOut = ledger[h].premiumIn
        /\ ledger[h].assetRedeemed

(***************************************************************************)
(* Miner.  Amounts are uint32 values in units of 2^28, as for the Wallet.  *)
(* The transaction pool, the node that answers the input-sum request and    *)
(* the hash of a block are outside the miner: what they answer is an input  *)
(* of the call.                                                             *)
(***************************************************************************)
\* calls explored
MaxMineOps == 2
\* math.MaxUint32, the nonce at which CalculateNonce gives up
MaxNonce == 3
\* Config.InitialSubsidy, Config.SubsidyHalvingRate, Config.MaxHalvings
InitialSubsidy == 4
SubsidyHalvingRate == 2
MaxHalvings == 2
\* m.ChainLength when the miner is created
ChainLengths == 0..(SubsidyHalvingRate * MaxHalvings)
\* m.Id.GetPublicKeyString()
MinerPublicKey == "miner"

\* a pooled transaction: the amounts of the coins its inputs reference, and
\* its outputs
PoolTransaction(inputAmounts, outputAmounts) ==
    [InputAmounts |-> inputAmounts,
     Outputs |-> [k \in 1..Len(outputAmounts) |->
                     [Amount |-> outputAmounts[k], LockingScript |-> OtherPublicKey]]]

PoolTransactions == {PoolTransaction(<<3>>, <<2>>), PoolTransaction(<<1, 1>>, <<1, 1>>)}

\* m.NewMiningPool(): the transactions selected for the block
MiningPools ==
    {<<>>} \cup {<<t>> : t \in PoolTransactions}
           \cup {p \in PoolTransactions \X PoolTransactions : p[1] # p[2]}

RECURSIVE SumSeq32(_, _)
SumSeq32(amounts, k) ==
    IF k > Len(amounts) THEN 0 ELSE Add32(amounts[k], SumSeq32(amounts, k + 1))

\* what the node sends on InputSums: for each transaction the sum of the
\* amounts its inputs reference
NodeInputSums(txs) == [k \in 1..Len(txs) |-> SumSeq32(txs[k].InputAmounts, 1)]

\* getInputSums: the node's answer, or {0} and an error after the timeout
getInputSums(txs, answered) ==
    IF answered THEN [sums |-> NodeInputSums(txs), err |-> FALSE]
    ELSE [sums |-> <<0>>, err |-> TRUE]

RECURSIVE Pow2(_)
Pow2(n) == IF n = 0 THEN 1 ELSE 2 * Pow2(n - 1)

CalculateMintingReward(chainLength) ==
    IF chainLength >= SubsidyHalvingRate * MaxHalvings THEN 0
    ELSE InitialSubsidy \div Pow2(chainLength \div SubsidyHalvingRate)

\* count -= out.Amount over the outputs of one transaction, from output k on
RECURSIVE minusOutputs(_, _, _)
minusOutputs(count, outputs, k) ==
    IF k > Len(outputs) THEN count
    ELSE minusOutputs(Sub32(count, outputs[k].Amount), outputs, k + 1)

RECURSIVE minusAllOutputs(_, _, _)
minusAllOutputs(count, txs, t) ==
    IF t > Len(txs) THEN count
    ELSE minusAllOutputs(minusOutputs(count, txs[t].Outputs, 1), txs, t + 1)

\* the error of getInputSums is dropped and its slice is summed as it is
GenerateCoinbaseTransaction(txs, answered, chainLength) ==
    LET sums    == getInputSums(txs, answered).sums
        rewards == CalculateMintingReward(chainLength)
        count   == minusAllOutputs(SumSeq32(sums, 1), txs, 1)
        total_count == Add32(rewards, count)
    IN [Inputs |-> <<>>,
        Outputs |-> <<[Amount |-> total_count, LockingScript |-> MinerPublicKey]>>]

\* CalculateNonce from nonce on.  winning is the set of nonces for which the
\* hash of the block is below the difficulty target; budget is the number of
\* passes through the loop made before ctx.Done() is ready.  The result is
\* the value returned and the nonce left in the header.
RECURSIVE CalculateNonceFrom(_, _, _, _)
CalculateNonceFrom(nonce, left, winning, budget) ==
    IF budget = 0 THEN [found |-> FALSE, Nonce |-> left]
    ELSE IF nonce < MaxNonce
         THEN IF nonce \in winning THEN [found |-> TRUE, Nonce |-> nonce]
              ELSE CalculateNonceFrom(nonce + 1, nonce, winning, budget - 1)
         ELSE [found |-> FALSE, Nonce |-> left]

CalculateNonce(winning, budget) == CalculateNonceFrom(0, 0, winning, budget)

\* the Miner as one value
MinerOf == [Mining |-> Mining, SendBlock |-> SendBlock, ChainLength |-> ChainLength]

\* Mine: the miner after the call and the block returned (<<>> for nil).
\* m.HandleBlock(new_block) is not part of the sources given; it is taken to
\* leave the Mining flag and the SendBlock channel alone.
Mine(m, priorityMet, txs, answered, winning, budget) ==
    IF ~priorityMet THEN [m |-> m, block |-> <<>>, found |-> FALSE]
    ELSE LET coinbase_txs == GenerateCoinbaseTransaction(txs, answered, m.ChainLength)
             n == CalculateNonce(winning, budget)
             new_block == [Nonce |-> n.Nonce, Transactions |-> <<coinbase_txs>> \o txs]
         IN IF n.found
            THEN [m |-> [m EXCEPT !.Mining = FALSE, !.SendBlock = Append(@, new_block)],
                  block |-> <<new_block>>, found |-> TRUE]
            ELSE [m |-> [m EXCEPT !.Mining = TRUE], block |-> <<>>, found |-> FALSE]

\* the nonces that win, and the passes the context allows
WinningNonces == {{}, {0}, {MaxNonce - 1}, {MaxNonce}}
Budgets == {0, 1, MaxNonce + 1}

DoMine ==
    \E priorityMet \in BOOLEAN, txs \in MiningPools, answered \in BOOLEAN,
       winning \in WinningNonces, budget \in Budgets :
        LET r == Mine(MinerOf, priorityMet, txs, answered, winning, budget) IN
        /\ nMineOps < MaxMineOps
        /\ Mining' = r.m.Mining
        /\ SendBlock' = r.m.SendBlock
        /\ lastMineCall' = [op |-> "Mine", priorityMet |-> priorityMet, txs |-> txs,
                            answered |-> answered, winning |-> winning,
                            block |-> r.block, found |-> r.found,
                            sent |-> Len(r.m.SendBlock) - Len(SendBlock)]
        /\ nMineOps' = nMineOps + 1
        /\ UNCHANGED ChainLength
        /\ UNCHANGED <<coinVars, cwVars, biVars, walletVars, swapVars, lnVars>>

DoGenerateCoinbaseTransaction ==
    \E txs \in MiningPools, answered \in BOOLEAN :
        /\ nMineOps < MaxMineOps
        /\ lastMineCall' = [op |-> "GenerateCoinbaseTransaction", txs |-> txs,
                            answered |-> answered,
                            coinbase |-> GenerateCoinbaseTransaction(txs, answered, ChainLength)]
        /\ nMineOps' = nMineOps + 1
        /\ UNCHANGED <<Mining, SendBlock, ChainLength>>
        /\ UNCHANGED <<coinVars, cwVars, biVars, walletVars, swapVars, lnVars>>

InitMiner ==
    /\ CoinInitValues(0)
    /\ CWInitValues(0, 0)
    /\ BIInitValues
    /\ WalletInitValues(0)
    /\ SwapInitValues
    /\ \E chainLength \in ChainLengths : MinerInitValues(chainLength)
    /\ LnInitValues

NextMiner ==
    \/ DoMine
    \/ DoGenerateCoinbaseTransaction

SpecMiner == InitMiner /\ [][NextMiner]_vars

(***************************************************************************)
(* Claims about the Miner.                                                 *)
(***************************************************************************)

\* the fees of the pooled transactions, as a number without a width
RECURSIVE SumSeq(_, _)
SumSeq(amounts, k) == IF k > Len(amounts) THEN 0 ELSE amounts[k] + SumSeq(amounts, k + 1)

RECURSIVE TotalFees(_, _)
TotalFees(txs, t) ==
    IF t > Len(txs) THEN 0
    ELSE SumSeq(txs[t].InputAmounts, 1)
         - SumSeq([k \in 1..Len(txs[t].Outputs) |-> txs[t].Outputs[k].Amount], 1)
         + TotalFees(txs, t + 1)

\* the coinbase transaction of the call that returned last, if it built one
LastCoinbase ==
    IF lastMineCall.op = "GenerateCoinbaseTransaction" THEN <<lastMineCall.coinbase>>
    ELSE IF lastMineCall.op = "Mine" /\ lastMineCall.block # <<>>
         THEN <<lastMineCall.block[1].Transactions[1]>>
         ELSE <<>>

\* C38 (as claimed): the coinbase transaction has no inputs and one output,
\* locked to the miner's own key, whose amount is the minting reward plus the
\* fees of the pooled transactions modulo 2^32, whether or not the node
\* answered the input-sum request before the timeout.
C38_CoinbaseAmount ==
    \A k \in 1..Len(LastCoinbase) :
        LET coinbase == LastCoinbase[k] IN
        /\ coinbase.Inputs = <<>>
        /\ Len(coinbase.Outputs) = 1
        /\ coinbase.Outputs[1].LockingScript = MinerPublicKey
        /\ coinbase.Outputs[1].Amount =
               (CalculateMintingReward(ChainLength) + TotalFees(lastMineCall.txs, 1))
                   % Uint32Range

\* C39 (as claimed): when Mine has returned, with a block or with nil, the
\* Mining flag is false; and Mine sent a block on SendBlock only if it found
\* a winning nonce for it, the nonce the block carries.
C39_MiningFlag ==
    lastMineCall.op = "Mine" =>
        /\ ~Mining
        /\ lastMineCall.sent > 0 =>
               /\ lastMineCall.sent = 1
               /\ lastMineCall.found
               /\ SendBlock[Len(SendBlock)].Nonce \in lastMineCall.winning

(***************************************************************************)
(* LightningNode: the handlers a peer calls.  The peer database, the        *)
(* decoding of a transaction and ValidateAndSign are outside the handlers:  *)
(* what they answer is an input of the call.  Calls are served one at a     *)
(* time.                                                                    *)
(***************************************************************************)
\* calls explored
MaxLnOps == 3
\* in.GetAddress(): the addresses of two peers in PeerDb, and one that is not
PeerAddresses == {"addr1", "addr2"}
Addresses == PeerAddresses \cup {"addrX"}
\* the encoded transactions a request carries
FundingTransactions == {"f1"}
RefundTransactions == {"r1", "r2"}
UpdateTransactions == {"u1"}
\* in.GetPublicKey()
PublicKeys == {"pk1"}

\* ln.PeerDb.Get(address): the peer (<<p>>), or nil (<<>>)
PeerDbGet(address) ==
    IF address \in PeerAddresses THEN <<[Addr |-> address]>> ELSE <<>>

\* block.DecodeTransaction: the block.Transaction of an encoded transaction
DecodeTransaction(encoded) == [id |-> encoded, Witnesses |-> 0]

\* ln.ValidateAndSign(tx): an error, or nil with the transaction signed
ValidateAndSign(tx, fails) ==
    IF fails THEN [err |-> TRUE, tx |-> tx]
    ELSE [err |-> FALSE, tx |-> [tx EXCEPT !.Witnesses = @ + 1]]

\* what a handler returns when it refuses
Refused(channels) == [Channels |-> channels, err |-> TRUE, panicked |-> FALSE]

\* OpenChannel without the test for a channel that exists
OpenChannel_noExistsCheck(channels, in, fundingFails, refundFails) ==
    LET found == PeerDbGet(in.Address) IN
    IF found = <<>> THEN Refused(channels)
    ELSE LET peer == found[1]
             ok1  == ValidateAndSign(DecodeTransaction(in.FundingTransaction), fundingFails)
             ok2  == ValidateAndSign(DecodeTransaction(in.RefundTransaction), refundFails)
             cha  == [Funder |-> FALSE, FundingTransaction |-> ok1.tx, State |-> 0,
                      CounterPartyPubKey |-> in.PublicKey,
                      MyTransactions |-> <<ok2.tx>>, TheirTransactions |-> <<ok2.tx>>,
                      MyRevocationKeys |-> {Hash(ok2.tx)}, TheirRevocationKeys |-> {}]
         IN IF ok1.err \/ ok2.err THEN Refused(channels)
            ELSE [Channels |-> (peer :> cha) @@ channels, err |-> FALSE, panicked |-> FALSE]

\* OpenChannel: the Channels map after the call and whether an error was
\* returned.  The revocation keys are kept as the set of transaction hashes
\* that have one.
OpenChannel(channels, in, fundingFails, refundFails) ==
    LET found == PeerDbGet(in.Address) IN
    IF found = <<>> THEN Refused(channels)
    ELSE IF found[1] \in DOMAIN channels THEN Refused(channels)
    ELSE LET peer == found[1]
             ok1  == ValidateAndSign(DecodeTransaction(in.FundingTransaction), fundingFails)
             ok2  == ValidateAndSign(DecodeTransaction(in.RefundTransaction), refundFails)
             cha  == [Funder |-> FALSE, FundingTransaction |-> ok1.tx, State |-> 0,
                      CounterPartyPubKey |-> in.PublicKey,
                      MyTransactions |-> <<ok2.tx>>, TheirTransactions |-> <<ok2.tx>>,
                      MyRevocationKeys |-> {Hash(ok2.tx)}, TheirRevocationKeys |-> {}]
         IN IF ok1.err \/ ok2.err THEN Refused(channels)
            ELSE [Channels |-> (peer :> cha) @@ channels, err |-> FALSE, panicked |-> FALSE]

\* ln.generateTransactionWithCorrectScripts(p, tx, key)
generateTransactionWithCorrectScripts(tx) == [id |-> tx.id, Witnesses |-> tx.Witnesses + 1]

\* GetUpdatedTransactions: the peer's transaction is signed and the version
\* with our scripts is appended to TheirTransactions; ln.Channels[p] of a
\* peer without a channel is nil and its use panics
GetUpdatedTransactions(channels, in, signFails) ==
    LET found == PeerDbGet(in.Address) IN
    IF found = <<>> THEN Refused(channels)
    ELSE IF signFails THEN Refused(channels)
    ELSE LET peer   == found[1]
             hashTx == Hash(DecodeTransaction(in.Transaction))
             trans  == generateTransactionWithCorrectScripts(DecodeTransaction(in.Transaction))
         IN IF peer \notin DOMAIN channels
            THEN [Channels |-> channels, err |-> FALSE, panicked |-> TRUE]
            ELSE [Channels |-> [channels EXCEPT
                                   ![peer].TheirTransactions = Append(@, trans),
                                   ![peer].MyRevocationKeys = @ \cup {hashTx}],
                  err |-> FALSE, panicked |-> FALSE]

OpenChannelRequests ==
    [Address : Addresses, PublicKey : PublicKeys,
     FundingTransaction : FundingTransactions, RefundTransaction : RefundTransactions]

DoOpenChannel ==
    \E in \in OpenChannelRequests, fundingFails \in BOOLEAN, refundFails \in BOOLEAN :
        LET r == OpenChannel(Channels, in, fundingFails, refundFails) IN
        /\ ~lnPanicked
        /\ nLnOps < MaxLnOps
        /\ Channels' = r.Channels
        /\ lastLnCall' = [op |-> "OpenChannel", in |-> in, fundingFails |-> fundingFails,
                          refundFails |-> refundFails, before |-> Channels, err |-> r.err]
        /\ nLnOps' = nLnOps + 1
        /\ UNCHANGED lnPanicked
        /\ UNCHANGED <<coinVars, cwVars, biVars, walletVars, swapVars, minerVars>>

DoGetUpdatedTransactions ==
    \E address \in Addresses, tx \in UpdateTransactions, signFails \in BOOLEAN :
        LET in == [Address |-> address, Transaction |-> tx]
            r  == GetUpdatedTransactions(Channels, in, signFails)
        IN /\ ~lnPanicked
           /\ nLnOps < MaxLnOps
           /\ Channels' = r.Channels
           /\ lnPanicked' = r.panicked
           /\ lastLnCall' = [op |-> "GetUpdatedTransactions", in |-> in, before |-> Channels,
                             err |-> r.err]
           /\ nLnOps' = nLnOps + 1
           /\ UNCHANGED <<coinVars, cwVars, biVars, walletVars, swapVars, minerVars>>

InitLightning ==
    /\ CoinInitValues(0)
    /\ CWInitValues(0, 0)
    /\ BIInitValues
    /\ WalletInitValues(0)
    /\ SwapInitValues
    /\ MinerInitValues(0)
    /\ LnInitValues

NextLightning ==
    \/ DoOpenChannel
    \/ DoGetUpdatedTransactions

SpecLightning == InitLightning /\ [][NextLightning]_vars

(***************************************************************************)
(* Claims about the LightningNode.                                         *)
(***************************************************************************)

\* C40: OpenChannel returns an error and leaves the Channels map as it was
\* when the peer is unknown, when the peer has a channel already, or when
\* ValidateAndSign fails for the funding or the refund transaction;
\* otherwise it adds exactly one channel, for that peer, with Funder = false,
\* State = 0 and the refund transaction as first entry of MyTransactions and
\* of TheirTransactions, and leaves the other channels alone.
C40_OpenChannelOnce ==
    lastLnCall.op = "OpenChannel" =>
        LET c      == lastLnCall
            found  == PeerDbGet(c.in.Address)
            refuse == \/ found = <<>>
                      \/ found[1] \in DOMAIN c.before
                      \/ c.fundingFails
                      \/ c.refundFails
            refund == ValidateAndSign(DecodeTransaction(c.in.RefundTransaction), FALSE).tx
        IN IF refuse
           THEN c.err /\ Channels = c.before
           ELSE /\ ~c.err
                /\ DOMAIN Channels = DOMAIN c.before \cup {found[1]}
                /\ \A q \in DOMAIN c.before : Channels[q] = c.before[q]
                /\ Channels[found[1]].Funder = FALSE
                /\ Channels[found[1]].State = 0
                /\ Channels[found[1]].MyTransactions = <<refund>>
                /\ Channels[found[1]].TheirTransactions = <<refund>>

\* OpenChannel refused a second channel for a peer whose channel had been
\* updated since it was opened, with both transactions valid
C40_Witness ==
    /\ lastLnCall.op = "OpenChannel"
    /\ lastLnCall.err
    /\ ~lastLnCall.fundingFails
    /\ ~lastLnCall.refundFails
    /\ \E q \in DOMAIN Channels :
          /\ q.Addr = lastLnCall.in.Address
          /\ Len(Channels[q].TheirTransactions) > 1
          /\ Channels[q].MyTransactions[1].id # lastLnCall.in.RefundTransaction

=============================================================================
